---- MODULE Spec2Model ----
(***************************************************************************)
(* A model of the sunvoxgo binding (src/sunvox.go): the process-wide       *)
(* engine with its map of up to 16 channels, one channel object with its   *)
(* playback flag, loaded bytes, custom loop and background pollers, and    *)
(* the native library seen as a collaborator whose return codes are        *)
(* inputs.                                                                 *)
(***************************************************************************)
EXTENDS Integers, Sequences, FiniteSets, TLC

VARIABLES
    Initialized,      \* SunvoxEngine.Initialized
    Version,          \* <<MajorVersion, MinorVersion, MinorVersion2>>
    channels,         \* SunvoxEngine.channels: index -> channel record
    handles,          \* number of indices for which a channel handle was ever returned
    slotOpen,         \* native side: the slots sv_open_slot has opened
    refused,          \* history: CreateChannel has been refused for lack of a free index
    playing,          \* SunvoxChannel.playing of the channel object at index 0
    byteData,         \* SunvoxChannel.byteData: 0 for no bytes, else the project held
    filename,         \* SunvoxChannel.filename: 0 for "", else the path
    hasPlayed,        \* history: Play or PlayFromBeginning has succeeded on this object
    nativeProject,    \* native side: the project loaded in slot 0 (0 for none)
    nativePlaying,    \* native side: slot 0 is playing
    curLine,          \* native side: sv_get_current_line of slot 0
    patterns,         \* native side: the pattern slots of slot 0, each [x, y, lines]
    patternCache,     \* patternCache: pattern index -> cached "LineCount"
    hasCustomLoop,    \* SunvoxChannel.hasCustomLoop
    customLoopStart,  \* SunvoxChannel.customLoopStart
    customLoopEnd,    \* SunvoxChannel.customLoopEnd
    loopCall,         \* history: the last SetCustomLoop call and the state it started in
    pollers,          \* the poller goroutines started so far, in the order of their go statements
    goroutineCancels, \* SunvoxChannel.goroutineCancels: callback name -> the poller that
                      \* reads the cancel channel kept under the name
    blocked,          \* the caller is stuck sending on a full cancel channel (where a
                      \* call is modelled as one step)
    cancelling,       \* the calls of the setters and of Close that have not returned:
                      \* goroutine -> its position in cancelRunningGoroutine
    trace,            \* history: the native calls the last pattern, module, volume or
                      \* fade operation made, in order
    locked,           \* native side: sv_lock_slot calls on slot 0 not yet matched by
                      \* an sv_unlock_slot
    muted,            \* native side: the muted patterns of slot 0
    links,            \* native side: the module connections of slot 0, <<source, destination>>
    ctl,              \* native side: the controller values of one module of slot 0
    cells,            \* native side: the note cells of one pattern of slot 0
    volume,           \* native side: the volume of slot 0, 0 .. 256
    fade,             \* a VolumeFade or ControllerFade object
    playingOf,        \* SunvoxChannel.playing of every channel object of the engine
    closedHandles,    \* history: the indices of the channel objects on which Close has
                      \* succeeded (where Close names the object it is called on)
    call              \* the last step: a binding call (name, result, native code, index),
                      \* a callback invocation (callback, its result, its argument,
                      \* the poller) or a poller step that invokes nothing

engineVars == <<Initialized, Version, channels, handles, slotOpen, refused>>

chanVars == <<playing, byteData, filename, hasPlayed>>

nativeVars == <<nativeProject, nativePlaying, curLine>>

patVars == <<patterns, patternCache>>

loopVars == <<hasCustomLoop, customLoopStart, customLoopEnd, loopCall>>

pollVars == <<pollers, goroutineCancels, blocked, cancelling>>

lockVars == <<trace, locked>>

moduleVars == <<muted, links, ctl>>

fadeVars == <<volume, fade>>

extraVars == <<lockVars, moduleVars, cells, fadeVars, playingOf, closedHandles>>

vars == <<engineVars, chanVars, nativeVars, patVars, loopVars, pollVars, extraVars, call>>

-----------------------------------------------------------------------------
(* Program constants and input sets *)

\* "16 channels max": the bound of the scan in CreateChannel
MaxChannels == 16

\* return codes of the native entry points: negative, zero, positive
NativeCodes == {-1, 0, 1}

\* return values of sv_init: a negative error code, or a packed version (0x010906)
VerCodes == {-1, 67846}

\* The handles the caller closes are those of the ClosableLow lowest indices and
\* of the last index.
ClosableLow == 3

Closable == (0 .. ClosableLow - 1) \cup {MaxChannels - 1}

\* caller-supplied channel IDs
IDs == {"music"}

NoIndex == -1

\* projects a caller loads: project p is the bytes of the file at path p
NumProjects == 2

Projects == 1 .. NumProjects

\* line numbers the native playhead takes (-1 right after a play from the beginning)
MaxLine == 1

Lines == -1 .. MaxLine

\* the pattern slots of the project a channel holds
NumPatterns == 2

\* where a project's patterns lie: left of the moved-out mark, left of line 0, at
\* line 0, right of it
PatternXs == {-100001, -5, 0, 4, 8}

PatternLineCounts == {2, 4}

\* the ranges a caller asks a custom loop for
LoopStarts == {-8, 0, 4}

LoopEnds == {0, 8, 12}

Call(op, ret, res, idx) == [op |-> op, ret |-> ret, res |-> res, idx |-> idx]

\* a call of a native function
Native(fn, arg) == [fn |-> fn, arg |-> arg]

-----------------------------------------------------------------------------
(* SunvoxEngine *)

\* the channel object newSunvoxChannel builds
newSunvoxChannel(id, index) == [ID |-> id, Index |-> index]

Min(S) == CHOOSE m \in S : \A x \in S : m <= x

\* A scan that runs one index too far.
FirstAvailableOffByOne(chs) ==
    LET free == (0 .. MaxChannels) \ DOMAIN chs
    IN  IF free = {} THEN NoIndex ELSE Min(free)

\* A scan that keeps the last free index it sees instead of breaking at the first.
FirstAvailableNoBreak(chs) ==
    LET free == (0 .. MaxChannels - 1) \ DOMAIN chs
    IN  IF free = {} THEN NoIndex ELSE CHOOSE m \in free : \A x \in free : x <= m

\* the scan of CreateChannel: the first i in 0..15 that is no key of the map, else -1
FirstAvailable(chs) ==
    LET free == (0 .. MaxChannels - 1) \ DOMAIN chs
    IN  IF free = {} THEN NoIndex ELSE Min(free)

MapPut(m, k, v) == [i \in DOMAIN m \cup {k} |-> IF i = k THEN v ELSE m[i]]

MapDelete(m, k) == [i \in DOMAIN m \ {k} |-> m[i]]

\* the fields of a channel object newSunvoxChannel has just built
FreshChannel ==
    /\ playing' = FALSE
    /\ byteData' = 0
    /\ filename' = 0
    /\ hasPlayed' = FALSE
    /\ hasCustomLoop' = FALSE
    /\ customLoopStart' = 0
    /\ customLoopEnd' = 0
    /\ goroutineCancels' = << >>

\* a slot sv_open_slot has just opened: an empty project, stopped, at line 0
FreshSlot ==
    /\ nativeProject' = 0
    /\ nativePlaying' = FALSE
    /\ curLine' = 0
    /\ patterns' = << >>

\* the first test of Init, skipped
NeverInitialized == FALSE

\* the first test of Init and of InitFromDirectory: `if e.Initialized`
AlreadyInitialized == Initialized

\* Engine.Init, called as op: a no-op once initialized; otherwise the library is
\* loaded (it may fail to load) and sv_init returns a packed version or a
\* negative code. The trace holds the library load and the native call made.
InitAs(op, loaded, ver) ==
    /\ IF AlreadyInitialized
       THEN /\ trace' = << >>
            /\ call' = Call(op, "nil", 0, NoIndex)
            /\ UNCHANGED <<Initialized, Version>>
       ELSE IF ~loaded
       THEN /\ trace' = <<Native("loadLibrary", 0)>>
            /\ call' = Call(op, "err", 0, NoIndex)
            /\ UNCHANGED <<Initialized, Version>>
       ELSE IF ver < 0
       THEN /\ Initialized' = FALSE
            /\ trace' = <<Native("loadLibrary", 0), Native("sv_init", 0)>>
            /\ call' = Call(op, "err", ver, NoIndex)
            /\ UNCHANGED Version
       ELSE /\ Initialized' = TRUE
            /\ Version' = <<(ver \div 65536) % 256, (ver \div 256) % 256, ver % 256>>
            /\ trace' = <<Native("loadLibrary", 0), Native("sv_init", 0)>>
            /\ call' = Call(op, "nil", ver, NoIndex)
    /\ UNCHANGED <<locked, moduleVars, cells, fadeVars, playingOf, closedHandles>>
    /\ UNCHANGED <<channels, handles, slotOpen, refused, chanVars, nativeVars>>
    /\ UNCHANGED <<patVars, loopVars, pollVars>>

\* Engine.Init
EngineInit(loaded, ver) == InitAs("Init", loaded, ver)

\* Engine.InitFromDirectory: once past its own test of Initialized it builds the
\* path of the library of the platform and returns what Init returns
InitFromDirectory(loaded, ver) == InitAs("InitFromDirectory", loaded, ver)

\* the test of Deinit, for the negative codes only
DeinitFailedBelowZero(res) == res < 0

\* the test of Deinit: `if res != 0`
DeinitFailed(res) == res # 0

\* Engine.Deinit, with res the code sv_deinit returns (kept in the trace). bound tells whether an
\* Init has loaded the library and bound deinitEngine to it: a call of the
\* function variable that nothing was bound to panics.
Deinit(bound, res) ==
    /\ Initialized => bound
    /\ IF ~bound
       THEN /\ trace' = << >>
            /\ call' = Call("Deinit", "panic", 0, NoIndex)
       ELSE /\ trace' = <<Native("sv_deinit", res)>>
            /\ call' = Call("Deinit", IF DeinitFailed(res) THEN "err" ELSE "nil", res, NoIndex)
    /\ UNCHANGED <<locked, moduleVars, cells, fadeVars, playingOf, closedHandles>>
    /\ UNCHANGED <<engineVars, chanVars, nativeVars, patVars, loopVars, pollVars>>

\* Engine.CreateChannel, with res the code sv_open_slot returns. The channel
\* variables follow the object at index 0: a channel created there is a new object.
CreateChannel(id, res) ==
    LET available == FirstAvailable(channels) IN
    IF ~Initialized
    THEN /\ UNCHANGED extraVars
         /\ call' = Call("CreateChannel", "err", 0, NoIndex)
         /\ UNCHANGED <<engineVars, chanVars, nativeVars, patVars, loopVars, pollVars>>
    ELSE IF available < 0
    THEN /\ UNCHANGED extraVars
         /\ call' = Call("CreateChannel", "err", 0, NoIndex)
         /\ refused' = TRUE
         /\ UNCHANGED <<Initialized, Version, channels, handles, slotOpen>>
         /\ UNCHANGED <<chanVars, nativeVars, patVars, loopVars, pollVars>>
    ELSE IF res # 0
    THEN /\ UNCHANGED extraVars
         /\ call' = Call("CreateChannel", "err", res, NoIndex)
         /\ UNCHANGED <<engineVars, chanVars, nativeVars, patVars, loopVars, pollVars>>
    ELSE /\ channels' = MapPut(channels, available, newSunvoxChannel(id, available))
         /\ slotOpen' = slotOpen \cup {available}
         /\ handles' = IF available + 1 > handles THEN available + 1 ELSE handles
         /\ UNCHANGED extraVars
         /\ call' = Call("CreateChannel", "nil", res, available)
         /\ UNCHANGED <<Initialized, Version, refused, patternCache, loopCall>>
         /\ UNCHANGED <<pollers, blocked, cancelling>>
         /\ IF available = 0
            THEN FreshChannel /\ FreshSlot
            ELSE /\ UNCHANGED <<chanVars, nativeVars, patterns, goroutineCancels>>
                 /\ UNCHANGED <<hasCustomLoop, customLoopStart, customLoopEnd>>

-----------------------------------------------------------------------------
(* SunvoxChannel: loading and playback *)

\* Channel.IsValid
IsValid == byteData # 0

\* Channel.IsPlaying
IsPlaying == playing

\* Channel.LoadFileFromBytes without the call record: loaded is the code
\* sv_load_from_memory returns; a load the library accepts replaces the slot's project
LoadBytes(data, loaded) ==
    /\ IF loaded # 0
       THEN /\ byteData' = 0
            /\ UNCHANGED <<filename, nativeProject>>
       ELSE /\ byteData' = data
            /\ filename' = 0
            /\ nativeProject' = data
    /\ UNCHANGED <<playing, hasPlayed, nativePlaying, curLine, engineVars>>
    /\ UNCHANGED <<patVars, loopVars, pollVars>>

LoadFileFromBytes(data, loaded) ==
    /\ LoadBytes(data, loaded)
    /\ UNCHANGED extraVars
    /\ call' = Call("LoadFileFromBytes", IF loaded # 0 THEN "err" ELSE "nil", loaded, data)

\* Channel.LoadFileFromPath and Channel.LoadFileFromFS: the file at path is read
\* (readOK), handed to LoadFileFromBytes, and the filename is set whatever that returned
LoadFromFile(op, path, readOK, loaded) ==
    /\ IF ~readOK
           THEN /\ byteData' = 0
                /\ UNCHANGED extraVars
                /\ call' = Call(op, "err", 0, path)
                /\ UNCHANGED <<filename, nativeProject, playing, hasPlayed>>
                /\ UNCHANGED <<nativePlaying, curLine, engineVars>>
           ELSE /\ byteData' = IF loaded # 0 THEN 0 ELSE path
                /\ nativeProject' = IF loaded # 0 THEN nativeProject ELSE path
                /\ filename' = path
                /\ UNCHANGED extraVars
                /\ call' = Call(op, IF loaded # 0 THEN "err" ELSE "nil", loaded, path)
                /\ UNCHANGED <<playing, hasPlayed, nativePlaying, curLine, engineVars>>
    /\ UNCHANGED <<patVars, loopVars, pollVars>>

LoadFileFromPath(path, readOK, loaded) == LoadFromFile("LoadFileFromPath", path, readOK, loaded)

LoadFileFromFS(path, readOK, loaded) == LoadFromFile("LoadFileFromFS", path, readOK, loaded)

\* Channel.PlayFromBeginning, with res the code sv_play_from_beginning returns
PlayFromBeginning(res) ==
    /\ IF res < 0
       THEN /\ UNCHANGED extraVars
            /\ call' = Call("PlayFromBeginning", "err", res, 0)
            /\ UNCHANGED <<playing, hasPlayed, nativePlaying, curLine>>
       ELSE /\ playing' = TRUE
            /\ hasPlayed' = TRUE
            /\ nativePlaying' = TRUE
            /\ curLine' = -1
            /\ UNCHANGED extraVars
            /\ call' = Call("PlayFromBeginning", "nil", res, 0)
    /\ UNCHANGED <<byteData, filename, nativeProject, engineVars>>
    /\ UNCHANGED <<patVars, loopVars, pollVars>>

\* Channel.Play, with res the code sv_play returns
Play(res) ==
    /\ IF res < 0
       THEN /\ UNCHANGED extraVars
            /\ call' = Call("Play", "err", res, 0)
            /\ UNCHANGED <<playing, hasPlayed, nativePlaying>>
       ELSE /\ playing' = TRUE
            /\ hasPlayed' = TRUE
            /\ nativePlaying' = TRUE
            /\ UNCHANGED extraVars
            /\ call' = Call("Play", "nil", res, 0)
    /\ UNCHANGED <<byteData, filename, nativeProject, curLine, engineVars>>
    /\ UNCHANGED <<patVars, loopVars, pollVars>>

\* Channel.Seek, with res the code sv_rewind returns
Seek(lineNum, res) ==
    /\ IF res # 0
       THEN /\ UNCHANGED extraVars
            /\ call' = Call("Seek", "err", res, lineNum)
            /\ UNCHANGED curLine
       ELSE /\ curLine' = lineNum
            /\ UNCHANGED extraVars
            /\ call' = Call("Seek", "nil", res, lineNum)
    /\ UNCHANGED <<chanVars, nativeProject, nativePlaying, engineVars>>
    /\ UNCHANGED <<patVars, loopVars, pollVars>>

\* Channel.Stop, with res the code sv_stop returns
Stop(res) ==
    /\ IF ~IsValid
       THEN /\ UNCHANGED extraVars
            /\ call' = Call("Stop", "nil", 0, 0)
            /\ UNCHANGED <<playing, nativePlaying>>
       ELSE IF res < 0
       THEN /\ UNCHANGED extraVars
            /\ call' = Call("Stop", "err", res, 0)
            /\ UNCHANGED <<playing, nativePlaying>>
       ELSE /\ playing' = FALSE
            /\ nativePlaying' = FALSE
            /\ UNCHANGED extraVars
            /\ call' = Call("Stop", "nil", res, 0)
    /\ UNCHANGED <<byteData, filename, hasPlayed, nativeProject, curLine, engineVars>>
    /\ UNCHANGED <<patVars, loopVars, pollVars>>

\* The native playhead advances while the slot plays.
LineAdvance(l) ==
    /\ nativePlaying
    /\ l # curLine
    /\ curLine' = l
    /\ UNCHANGED extraVars
    /\ call' = Call("LineAdvance", "nil", 0, l)
    /\ UNCHANGED <<engineVars, chanVars, nativeProject, nativePlaying>>
    /\ UNCHANGED <<patVars, loopVars, pollVars>>

\* A song that does not loop reaches its end: the library stops the slot by itself.
SongEnd ==
    /\ nativePlaying
    /\ nativePlaying' = FALSE
    /\ UNCHANGED extraVars
    /\ call' = Call("SongEnd", "nil", 0, 0)
    /\ UNCHANGED <<engineVars, chanVars, nativeProject, curLine>>
    /\ UNCHANGED <<patVars, loopVars, pollVars>>

-----------------------------------------------------------------------------
(* The cancel channels of the callback pollers *)

\* the names under which the two pollers keep their cancel channel
LineChange == "SetOnCurrentLineChange"

PatternTouch == "SetOnPatternTouch"

Names == {LineChange, PatternTouch}

\* the most go statements the two setters run
MaxPollers == 2

\* line := -999999999, the poller's line before its first poll
NoLine == -999999999

\* A poller goroutine as its go statement starts it: the cancel channel is empty,
\* the locals are line, touchingPatterns (touching) and wasTouchingPatterns (was).
\* told holds the patterns the two notification loops have passed in this round.
\* History: the caller has cancelled it (dismissed), the last line handed to the
\* callback (lastArg), the patterns whose last notification was justStarted=true
\* (lastTouch), the patterns touched at the previous and at this poll
\* (hPrev, hNow), and the sends its cancel channel has taken so far (sends).
NewPoller(name) ==
    [name |-> name, pc |-> "select", cancel |-> 0, line |-> NoLine,
     touching |-> {}, was |-> {}, told |-> {},
     dismissed |-> FALSE, lastArg |-> NoLine, lastTouch |-> {},
     hPrev |-> {}, hNow |-> {}, sends |-> 0]

\* the goroutine has returned: its locals are gone, its channel stays
Returned(q) ==
    [NewPoller(q.name) EXCEPT !.pc = "done", !.cancel = q.cancel, !.sends = q.sends]

Running(q) == q.pc # "done"

\* the pollers whose cancel channel cancelRunningGoroutine sends on
Registered(cancelName) ==
    IF cancelName = ""
    THEN {goroutineCancels[n] : n \in DOMAIN goroutineCancels}
    ELSE IF cancelName \in DOMAIN goroutineCancels
         THEN {goroutineCancels[cancelName]}
         ELSE {}

\* c <- true on a channel of capacity 1 that holds a value already
WouldBlock(ids) == \E p \in ids : pollers[p].cancel = 1

\* a cancelRunningGoroutine that forgets the channel without sending on it
ForgetWithoutSend(ps, ids) ==
    [p \in DOMAIN ps |->
        IF p \in ids THEN [ps[p] EXCEPT !.dismissed = Running(ps[p])] ELSE ps[p]]

\* cancelRunningGoroutine: c <- true on each of the channels
SendCancel(ps, ids) ==
    [p \in DOMAIN ps |->
        IF p \in ids
        THEN [ps[p] EXCEPT !.cancel = 1, !.dismissed = Running(ps[p]),
                           !.sends = @ + 1]
        ELSE ps[p]]

\* cancelRunningGoroutine: clear(s.goroutineCancels) or delete(.., cancelName)
RegistryAfterCancel(cancelName) ==
    IF cancelName = "" THEN << >> ELSE MapDelete(goroutineCancels, cancelName)

\* Channel.Close on a handle whose Index is i, with res the code sv_close_slot
\* returns. The handle may be one whose channel was closed before; receiver is
\* how call names the handle.
CloseAs(i, res, receiver) ==
    /\ i < handles
    /\ IF res # 0
       THEN /\ call' = Call("Close", "err", res, receiver)
            /\ UNCHANGED <<engineVars, nativeVars>>
       ELSE /\ channels' = MapDelete(channels, i)
            /\ slotOpen' = slotOpen \ {i}
            /\ call' = Call("Close", "nil", res, receiver)
            /\ UNCHANGED <<Initialized, Version, handles, refused>>
            /\ IF i = 0
               THEN /\ nativeProject' = 0
                    /\ nativePlaying' = FALSE
                    /\ UNCHANGED curLine
               ELSE UNCHANGED nativeVars
    /\ IF res = 0 /\ i = 0
       THEN /\ pollers' = SendCancel(pollers, Registered(""))
            /\ goroutineCancels' = RegistryAfterCancel("")
            /\ blocked' = WouldBlock(Registered(""))
            /\ UNCHANGED cancelling
       ELSE UNCHANGED pollVars
    /\ UNCHANGED chanVars
    /\ UNCHANGED <<patVars, loopVars>>

Close(i, res) == CloseAs(i, res, i) /\ UNCHANGED extraVars

\* Close on a channel object of Index i that the caller names: the object the
\* channel map holds at i, or (again) an object on which Close has succeeded
\* before, whichever object the map holds at i now
CloseHandle(i, again, res) ==
    /\ IF again THEN i \in closedHandles ELSE i \in DOMAIN channels
    /\ CloseAs(i, res, [Index |-> i, closed |-> again])
    /\ closedHandles' = IF res = 0 THEN closedHandles \cup {i} ELSE closedHandles
    /\ UNCHANGED <<lockVars, moduleVars, cells, fadeVars, playingOf>>

-----------------------------------------------------------------------------
(* Patterns and the custom loop *)

\* const customLoopLineAmount
customLoopLineAmount == 99999999

\* the line below which CustomLooplessX and SetCustomLoop take a pattern to have
\* been moved out by a custom loop (-100_000)
MovedOutBelow == -100000

\* math.MaxInt, with int as on the 32-bit targets (386, arm)
MaxInt == 2147483647

\* Go's int addition, which wraps around
Add(a, b) ==
    IF a > 0 /\ b > MaxInt - a THEN (a - MaxInt - 1) + (b - MaxInt - 1)
    ELSE IF a < 0 /\ b < (-MaxInt - 1) - a THEN (a + MaxInt + 1) + (b + MaxInt + 1)
    ELSE a + b

\* Go's int negation (of anything but the least int)
Neg(a) == 0 - a

NoLoopCall == [pre |-> << >>, had |-> FALSE, startX |-> 0, endX |-> 0]

\* the pattern slots that hold a pattern: those with a line count above 0
Existing(pats) == {i \in DOMAIN pats : pats[i].lines > 0}

\* Channel.PatternCount: the number of pattern slots with a line count above 0
PatternCount(pats) == Cardinality(Existing(pats))

\* Channel.ForEachPattern visits the pattern indices 0 .. PatternCount-1, which
\* are the slots 1 .. PatternCount of the sequence
Visited(pats) == {i \in DOMAIN pats : i <= PatternCount(pats)}

\* Pattern.LineCount: the cached value when there is one, else the native count
LineCount(pats, cache, i) == IF i \in DOMAIN cache THEN cache[i] ELSE pats[i].lines

\* the patterns of project d: one pattern of 2 * d lines at line 0
ProjectPatterns(d) == <<[x |-> 0, y |-> 0, lines |-> 2 * d]>>

\* Channel.LoadFileFromBytes, with the patterns of the slot followed: a load the
\* library accepts replaces them by those of the project loaded
LoadProject(data, loaded) ==
    /\ IF loaded # 0
       THEN /\ byteData' = 0
            /\ UNCHANGED <<filename, nativeProject, patterns>>
       ELSE /\ byteData' = data
            /\ filename' = 0
            /\ nativeProject' = data
            /\ patterns' = ProjectPatterns(data)
    /\ call' = Call("LoadFileFromBytes", IF loaded # 0 THEN "err" ELSE "nil", loaded, data)
    /\ UNCHANGED <<playing, hasPlayed, nativePlaying, curLine, engineVars>>
    /\ UNCHANGED <<patternCache, loopVars, pollVars, extraVars>>

\* the codes sv_get_pattern_lines returns for slot i: the line count of the
\* pattern, 0 for an empty slot, an error code on a closed slot
LineCodes(i) ==
    IF 0 \notin slotOpen THEN {-1} ELSE {IF i \in DOMAIN patterns THEN patterns[i].lines ELSE 0}

\* Pattern.LineCount on the pattern of slot i, res being the code
\* sv_get_pattern_lines returns when it is called. patternCache is one map for
\* the process, keyed by the pattern index.
PatternLineCount(i, res) ==
    /\ IF i \in DOMAIN patternCache
       THEN /\ trace' = << >>
            /\ call' = Call("LineCount", "nil", patternCache[i], i)
            /\ UNCHANGED patternCache
       ELSE /\ trace' = <<Native("sv_pause", 0), Native("sv_get_pattern_lines", i),
                          Native("sv_resume", 0)>>
            /\ call' = Call("LineCount", IF res < 0 THEN "err" ELSE "nil", res, i)
            /\ patternCache' = IF res < 0 THEN patternCache
                               ELSE [j \in DOMAIN patternCache \cup {i} |->
                                        IF j = i THEN res ELSE patternCache[j]]
    /\ UNCHANGED <<locked, moduleVars, cells, fadeVars, playingOf, closedHandles>>
    /\ UNCHANGED <<engineVars, chanVars, nativeVars, patterns, loopVars, pollVars>>

\* the cache after LineCount was called on every pattern of the set
Cached(pats, cache, called) ==
    [i \in DOMAIN cache \cup called |-> LineCount(pats, cache, i)]

\* Pattern.Move(dx, 0) on the patterns of the set, dx depending on the pattern
MoveEach(pats, who, dx(_)) ==
    [i \in DOMAIN pats |->
        IF i \in who THEN [pats[i] EXCEPT !.x = Add(pats[i].x, dx(i))] ELSE pats[i]]

\* Pattern.CustomLooplessX
CustomLooplessX(pats, has, start, i) ==
    IF has
    THEN IF pats[i].x < MovedOutBelow
         THEN Add(pats[i].x, customLoopLineAmount)
         ELSE Add(pats[i].x, start)
    ELSE pats[i].x

\* the patterns after Channel.ResetCustomLoop
ResetPatterns(pats, has, start) ==
    IF ~has THEN pats
    ELSE LET dx(i) == IF pats[i].x < 0 THEN customLoopLineAmount ELSE start
         IN  MoveEach(pats, Visited(pats), dx)

\* SetCustomLoop's test for a pattern that lies in the range
InRange(pats, cache, i, startX, endX) ==
    /\ CustomLooplessX(pats, FALSE, 0, i) >= startX
    /\ Add(CustomLooplessX(pats, FALSE, 0, i), LineCount(pats, cache, i)) <= endX

\* SetCustomLoop's leastX: the least X of the patterns in the range, else MaxInt
LeastX(pats, cache, startX, endX) ==
    LET in == {i \in Visited(pats) : InRange(pats, cache, i, startX, endX)}
    IN  IF in = {} THEN MaxInt ELSE Min({pats[i].x : i \in in})

\* the patterns after SetCustomLoop's first loop: those out of the range go left
MovedOut(pats, cache, startX, endX) ==
    LET out == {i \in Visited(pats) :
                    /\ ~InRange(pats, cache, i, startX, endX)
                    /\ pats[i].x > MovedOutBelow}
        dx(i) == Neg(customLoopLineAmount)
    IN  MoveEach(pats, out, dx)

\* the patterns after SetCustomLoop's second loop: those right of line 0 go left by leastX
Aligned(pats, leastX) ==
    LET dx(i) == Neg(leastX)
    IN  MoveEach(pats, {i \in Visited(pats) : pats[i].x > 0}, dx)

\* the most locks of the slot held at once
MaxLocked == 2

\* sv_lock_slot and sv_unlock_slot succeed on an open slot and fail on a closed
\* one: the locks held after each
Acquired(n) == IF 0 \in slotOpen THEN n + 1 ELSE n

Released(n) == IF 0 \in slotOpen /\ n > 0 THEN n - 1 ELSE n

\* the native calls of Pattern.SetXY, res being the code sv_set_pattern_xy returns
XYCalls(res) ==
    <<Native("sv_pause", 0), Native("sv_lock_slot", 0), Native("sv_set_pattern_xy", 0)>>
    \o (IF res # 0 THEN << >> ELSE <<Native("sv_unlock_slot", 0)>>)
    \o <<Native("sv_resume", 0)>>

\* Pattern.SetXY on pattern i, called as op
SetXYAs(op, i, x, y, res) ==
    /\ locked < MaxLocked
    /\ trace' = XYCalls(res)
    /\ locked' = (IF res # 0 THEN Acquired(locked) ELSE Released(Acquired(locked)))
    /\ patterns' = (IF res # 0 THEN patterns ELSE [patterns EXCEPT ![i].x = x, ![i].y = y])
    /\ call' = Call(op, IF res # 0 THEN "err" ELSE "nil", res, i)
    /\ UNCHANGED <<moduleVars, cells, fadeVars, playingOf, closedHandles>>
    /\ UNCHANGED <<engineVars, chanVars, nativeVars, patternCache, loopVars, pollVars>>

\* Pattern.SetXY
SetXY(i, x, y, res) == SetXYAs("SetXY", i, x, y, res)

\* Pattern.Move
Move(i, dx, dy, res) == SetXYAs("Move", i, Add(patterns[i].x, dx), Add(patterns[i].y, dy), res)

\* the codes sv_pattern_mute returns: whether the pattern was muted, or an error
MuteCodes(i) == IF 0 \in slotOpen THEN {-1, IF i \in muted THEN 1 ELSE 0} ELSE {-1}

\* Pattern.SetMute, res being the code sv_pattern_mute returns
SetMute(i, mute, res) ==
    /\ locked < MaxLocked
    /\ IF Acquired(locked) = locked
       THEN /\ trace' = <<Native("sv_lock_slot", 0)>>
            /\ call' = Call("SetMute", "err", 0, i)
            /\ UNCHANGED <<locked, muted>>
       ELSE /\ trace' = <<Native("sv_lock_slot", 0), Native("sv_pattern_mute", 0),
                          Native("sv_unlock_slot", 0)>>
            /\ locked' = Released(Acquired(locked))
            /\ muted' = (IF res < 0 THEN muted ELSE IF mute THEN muted \cup {i} ELSE muted \ {i})
            /\ call' = Call("SetMute", IF res < 0 THEN "err" ELSE "nil", res, i)
    /\ UNCHANGED <<links, ctl, cells, fadeVars, playingOf, closedHandles>>
    /\ UNCHANGED <<engineVars, chanVars, nativeVars, patVars, loopVars, pollVars>>

\* the modules of the project, by index
NumModules == 2

Modules == 0 .. NumModules - 1

\* Module.Connect and Module.Disconnect: dest is NoIndex for nil, fn the native
\* function, res the code it returns, after the connections the call leaves
\* when the library accepts it
Rewire(op, fn, source, dest, res, after) ==
    /\ locked < MaxLocked
    /\ IF dest = NoIndex
       THEN /\ trace' = << >>
            /\ call' = Call(op, "err", 0, source)
            /\ UNCHANGED <<locked, links>>
       ELSE IF Acquired(locked) = locked
       THEN /\ trace' = <<Native("sv_lock_slot", 0)>>
            /\ call' = Call(op, "err", 0, source)
            /\ UNCHANGED <<locked, links>>
       ELSE IF res < 0
       THEN /\ trace' = <<Native("sv_lock_slot", 0), Native(fn, dest)>>
            /\ locked' = Acquired(locked)
            /\ call' = Call(op, "err", res, source)
            /\ UNCHANGED links
       ELSE /\ trace' = <<Native("sv_lock_slot", 0), Native(fn, dest), Native("sv_unlock_slot", 0)>>
            /\ locked' = Released(Acquired(locked))
            /\ links' = after
            /\ call' = Call(op, "nil", res, source)
    /\ UNCHANGED <<muted, ctl, cells, fadeVars, playingOf, closedHandles>>
    /\ UNCHANGED <<engineVars, chanVars, nativeVars, patVars, loopVars, pollVars>>

\* Module.Connect
Connect(source, dest, res) ==
    Rewire("Connect", "sv_connect_module", source, dest, res, links \cup {<<source, dest>>})

\* Module.Disconnect
Disconnect(source, dest, res) ==
    Rewire("Disconnect", "sv_disconnect_module", source, dest, res, links \ {<<source, dest>>})

RECURSIVE Repeated(_, _)
\* a sequence of calls made n times over
Repeated(calls, n) == IF n = 0 THEN << >> ELSE calls \o Repeated(calls, n - 1)

\* the native calls of Channel.ResetCustomLoop (those that read a pattern left
\* out): between a pause and a resume, every pattern visited is moved
ResetCalls(pats, has) ==
    IF ~has THEN << >>
    ELSE <<Native("sv_pause", 0)>>
         \o Repeated(XYCalls(0), Cardinality(Visited(pats)))
         \o <<Native("sv_resume", 0)>>

\* the native calls of Channel.SetCustomLoop when it goes past its first test
\* (those that read a pattern left out): those of ResetCustomLoop, then,
\* between a pause and a resume, the moves of its two loops
LoopCalls(pats, cache, has, start, startX, endX) ==
    LET reset == ResetPatterns(pats, has, start)
        out == {i \in Visited(reset) :
                    /\ ~InRange(reset, cache, i, startX, endX)
                    /\ reset[i].x > MovedOutBelow}
        moved == MovedOut(reset, cache, startX, endX)
        right == {i \in Visited(moved) : moved[i].x > 0}
    IN  ResetCalls(pats, has)
        \o <<Native("sv_pause", 0)>>
        \o Repeated(XYCalls(0), Cardinality(out) + Cardinality(right))
        \o <<Native("sv_resume", 0)>>

\* Channel.SetCustomLoop
SetCustomLoop(startX, endX) ==
    /\ loopCall' = [pre |-> patterns, had |-> hasCustomLoop,
                    startX |-> startX, endX |-> endX]
    /\ UNCHANGED <<locked, moduleVars, cells, fadeVars, playingOf, closedHandles>>
    /\ call' = Call("SetCustomLoop", "nil", 0, 0)
    /\ IF startX = customLoopStart /\ endX = customLoopEnd
       THEN /\ trace' = << >>
            /\ UNCHANGED <<patVars, hasCustomLoop, customLoopStart, customLoopEnd>>
       ELSE LET reset == ResetPatterns(patterns, hasCustomLoop, customLoopStart)
                leastX == LeastX(reset, patternCache, startX, endX)
            IN  /\ patterns' = Aligned(MovedOut(reset, patternCache, startX, endX), leastX)
                /\ patternCache' = Cached(patterns, patternCache, Visited(patterns))
                /\ hasCustomLoop' = TRUE
                /\ customLoopStart' = leastX
                /\ customLoopEnd' = Add(endX, Neg(leastX))
                /\ trace' = LoopCalls(patterns, patternCache, hasCustomLoop, customLoopStart,
                                      startX, endX)
    /\ UNCHANGED <<engineVars, chanVars, nativeVars, pollVars>>

\* Channel.ResetCustomLoop
ResetCustomLoop ==
    /\ trace' = ResetCalls(patterns, hasCustomLoop)
    /\ UNCHANGED <<locked, moduleVars, cells, fadeVars, playingOf, closedHandles>>
    /\ call' = Call("ResetCustomLoop", "nil", 0, 0)
    /\ patterns' = ResetPatterns(patterns, hasCustomLoop, customLoopStart)
    /\ hasCustomLoop' = FALSE
    /\ customLoopStart' = IF hasCustomLoop THEN 0 ELSE customLoopStart
    /\ customLoopEnd' = IF hasCustomLoop THEN 0 ELSE customLoopEnd
    /\ UNCHANGED <<engineVars, chanVars, nativeVars, patternCache, loopCall, pollVars>>

\* Channel.ForEachPattern with a callback that returns false at its call number
\* stopAt (0: never). The result is the sequence of the slots the callback was
\* called with: pattern indices 0 .. PatternCount-1 are the slots 1 .. PatternCount.
ForEachPattern(stopAt) ==
    LET count == PatternCount(patterns)
        calls == IF stopAt \in 1 .. count THEN stopAt ELSE count
    IN  /\ call' = Call("ForEachPattern", "nil", [k \in 1 .. calls |-> k], stopAt)
        /\ UNCHANGED <<engineVars, chanVars, nativeVars, patVars, loopVars, pollVars, extraVars>>

\* Channel.CustomLoopStart
CustomLoopStart ==
    /\ call' = Call("CustomLoopStart", "nil", IF hasCustomLoop THEN customLoopStart ELSE 0, 0)
    /\ UNCHANGED <<engineVars, chanVars, nativeVars, patVars, loopVars, pollVars, extraVars>>

\* Channel.CustomLoopEnd
CustomLoopEnd ==
    /\ call' = Call("CustomLoopEnd", "nil", IF hasCustomLoop THEN customLoopEnd ELSE 0, 0)
    /\ UNCHANGED <<engineVars, chanVars, nativeVars, patVars, loopVars, pollVars, extraVars>>

\* Channel.HasCustomLoop
HasCustomLoop == hasCustomLoop

-----------------------------------------------------------------------------
(* The callback pollers *)

\* SetOnCurrentLineChange and SetOnPatternTouch: cancel the poller of the name,
\* return on a nil callback, else start a poller and keep its cancel channel
SetOnCallback(name, isNil) ==
    /\ ~blocked
    /\ isNil \/ Len(pollers) < MaxPollers
    /\ IF WouldBlock(Registered(name))
       THEN /\ blocked' = TRUE
            /\ UNCHANGED extraVars
            /\ call' = Call(name, "blocked", 0, 0)
            /\ UNCHANGED <<pollers, goroutineCancels>>
       ELSE /\ UNCHANGED extraVars
            /\ call' = Call(name, IF isNil THEN "nil" ELSE "func", 0, 0)
            /\ UNCHANGED blocked
            /\ IF isNil
               THEN /\ pollers' = SendCancel(pollers, Registered(name))
                    /\ goroutineCancels' = RegistryAfterCancel(name)
               ELSE /\ pollers' = Append(SendCancel(pollers, Registered(name)),
                                         NewPoller(name))
                    /\ goroutineCancels' =
                           MapPut(RegistryAfterCancel(name), name, Len(pollers) + 1)
    /\ UNCHANGED <<engineVars, chanVars, nativeVars, patVars, loopVars, cancelling>>

SetOnCurrentLineChange(isNil) == SetOnCallback(LineChange, isNil)

SetOnPatternTouch(isNil) == SetOnCallback(PatternTouch, isNil)

\* what call holds after a step of a poller that invokes no callback
Polling == Call("poll", "", 0, 0)

\* the callbacks, as call.op names their invocations
Callbacks == {"onLinechange", "onPatternTouch(true)", "onPatternTouch(false)"}

\* select { case <-cancel: return; default: ... }
Select(p) ==
    /\ p \in DOMAIN pollers
    /\ pollers[p].pc = "select"
    /\ pollers' = [pollers EXCEPT ![p] =
                      IF @.cancel > 0 THEN Returned([@ EXCEPT !.cancel = 0])
                      ELSE [@ EXCEPT !.pc = "poll"]]
    /\ UNCHANGED <<engineVars, chanVars, nativeVars, patVars, loopVars>>
    /\ UNCHANGED extraVars
    /\ call' = Polling
    /\ UNCHANGED <<goroutineCancels, blocked, cancelling>>

\* a poller that takes every poll for a change of line
LineChangedAlways(l, line) == TRUE

\* if l != line
LineChanged(l, line) == l # line

\* The default branch of the line poller, then its sleep; r is what the callback
\* returns.
PollLine(p, r) ==
    /\ p \in DOMAIN pollers
    /\ pollers[p].name = LineChange
    /\ pollers[p].pc = "poll"
    /\ LET l == curLine
       IN  IF LineChanged(l, pollers[p].line)
           THEN /\ UNCHANGED extraVars
                /\ call' = Call("onLinechange", r, l, p)
                /\ pollers' = [pollers EXCEPT ![p] =
                                  IF r = "false" THEN Returned(@)
                                  ELSE [@ EXCEPT !.line = l, !.lastArg = l,
                                                 !.pc = "select"]]
           ELSE /\ r = "true"
                /\ pollers' = [pollers EXCEPT ![p].pc = "select"]
                /\ UNCHANGED extraVars
                /\ call' = Polling
    /\ UNCHANGED <<engineVars, chanVars, nativeVars, patVars, loopVars>>
    /\ UNCHANGED <<goroutineCancels, blocked, cancelling>>

\* the patterns ForEachPattern hands to the poller
Polled == IF 0 \in slotOpen THEN Visited(patterns) ELSE {}

\* l >= pattern.X() && l <= pattern.X()+lc
Touching(l) ==
    {i \in Polled :
        /\ l >= patterns[i].x
        /\ l <= Add(patterns[i].x, LineCount(patterns, patternCache, i))}

\* The default branch of the touch poller up to its notification loops: it reads
\* the line and collects the patterns the line touches.
PollTouch(p) ==
    /\ p \in DOMAIN pollers
    /\ pollers[p].name = PatternTouch
    /\ pollers[p].pc = "poll"
    /\ pollers' = [pollers EXCEPT ![p] =
                      [@ EXCEPT !.touching = Touching(curLine), !.told = {},
                                !.hPrev = pollers[p].hNow, !.hNow = Touching(curLine),
                                !.pc = "notify"]]
    /\ patternCache' = Cached(patterns, patternCache, Polled)
    /\ UNCHANGED <<engineVars, chanVars, nativeVars, patterns, loopVars>>
    /\ UNCHANGED extraVars
    /\ call' = Polling
    /\ UNCHANGED <<goroutineCancels, blocked, cancelling>>

\* the poller after onPatternTouch(pattern i, justStarted) returned r
Notified(q, i, justStarted, r) ==
    IF r = "false" THEN Returned(q)
    ELSE [q EXCEPT !.told = @ \cup {i},
                   !.lastTouch = IF justStarted THEN @ \cup {i} ELSE @ \ {i}]

\* One step of the two notification loops of the touch poller: the patterns
\* touched now and not before get justStarted=true, then those touched before and
\* not now get false; after the loops was takes the value of touching, touching
\* is cleared and the poller sleeps. r is what the callback returns.
Notify(p, r) ==
    /\ p \in DOMAIN pollers
    /\ pollers[p].pc = "notify"
    /\ LET q == pollers[p]
           started == (q.touching \ q.was) \ q.told
           ended == (q.was \ q.touching) \ q.told
       IN  IF started # {}
           THEN \E i \in started :
                   /\ UNCHANGED extraVars
                   /\ call' = Call("onPatternTouch(true)", r, i, p)
                      /\ pollers' = [pollers EXCEPT ![p] = Notified(q, i, TRUE, r)]
           ELSE IF ended # {}
           THEN \E i \in ended :
                   /\ UNCHANGED extraVars
                   /\ call' = Call("onPatternTouch(false)", r, i, p)
                      /\ pollers' = [pollers EXCEPT ![p] = Notified(q, i, FALSE, r)]
           ELSE /\ r = "true"
                /\ pollers' = [pollers EXCEPT ![p] =
                                  [q EXCEPT !.was = q.touching, !.touching = {},
                                            !.told = {}, !.hPrev = q.hNow,
                                            !.pc = "select"]]
                /\ UNCHANGED extraVars
                /\ call' = Polling
    /\ UNCHANGED <<engineVars, chanVars, nativeVars, patVars, loopVars>>
    /\ UNCHANGED <<goroutineCancels, blocked, cancelling>>

\* a step of poller p
PollerStep(p) ==
    \/ Select(p)
    \/ \E r \in {"true", "false"} : PollLine(p, r)
    \/ PollTouch(p)
    \/ \E r \in {"true", "false"} : Notify(p, r)

-----------------------------------------------------------------------------
(* The setters and Close as the goroutines run them, statement by statement *)

\* the goroutine of the program that uses the binding; the goroutine of a poller
\* has the number of the poller
Caller == 0

\* Goroutine t is where it can call a setter: the caller between two calls, a
\* line poller where it has read a new line and invokes onLinechange.
CanCall(t) ==
    /\ t \notin DOMAIN cancelling
    /\ \/ t = Caller
       \/ /\ t \in DOMAIN pollers
          /\ pollers[t].name = LineChange
          /\ pollers[t].pc = "poll"
          /\ LineChanged(curLine, pollers[t].line)

\* the pollers while goroutine t is inside a call: a poller is inside its
\* callback, which got the line l
InCall(ps, t, l) ==
    IF t = Caller THEN ps
    ELSE [ps EXCEPT ![t] = [@ EXCEPT !.pc = "callback", !.lastArg = l]]

\* the pollers after the call of goroutine t has returned: the callback that made
\* the call returns r, and the poller goes on as after any callback
AfterCall(ps, t, r) ==
    IF t = Caller THEN ps
    ELSE [ps EXCEPT ![t] = IF r = "false" THEN Returned(@)
                           ELSE [@ EXCEPT !.line = ps[t].lastArg, !.pc = "select"]]

\* the go statements that the calls in progress have still to run
ToStart == Cardinality({t \in DOMAIN cancelling : ~cancelling[t].isNil})

\* c, ok := s.goroutineCancels[cancelName]: goroutine t calls the setter of the
\* name, which calls cancelRunningGoroutine, which looks the channel up
Lookup(t, name, isNil) ==
    /\ CanCall(t)
    /\ isNil \/ Len(pollers) + ToStart < MaxPollers
    /\ cancelling' = MapPut(cancelling, t,
                            [op |-> name, name |-> name, isNil |-> isNil,
                             found |-> Registered(name), pc |-> "send"])
    /\ pollers' = InCall(pollers, t, curLine)
    /\ call' = Call(name, "called", 0, t)
    /\ UNCHANGED <<goroutineCancels, blocked>>
    /\ UNCHANGED <<engineVars, chanVars, nativeVars, patVars, loopVars, extraVars>>

\* Close by the caller up to its cancelRunningGoroutine(""): closeSlot, the
\* delete from the channel map, and the start of the range over the cancel channels
CloseSlot(res) ==
    /\ CanCall(Caller)
    /\ IF res # 0
       THEN /\ call' = Call("Close", "err", res, 0)
            /\ UNCHANGED <<engineVars, nativeVars, pollVars>>
       ELSE /\ channels' = MapDelete(channels, 0)
            /\ slotOpen' = slotOpen \ {0}
            /\ nativeProject' = 0
            /\ nativePlaying' = FALSE
            /\ cancelling' = MapPut(cancelling, Caller,
                                    [op |-> "Close", name |-> "", isNil |-> TRUE,
                                     found |-> Registered(""), pc |-> "send"])
            /\ call' = Call("Close", "called", res, 0)
            /\ UNCHANGED <<Initialized, Version, handles, refused, curLine>>
            /\ UNCHANGED <<pollers, goroutineCancels, blocked>>
    /\ UNCHANGED <<chanVars, patVars, loopVars, extraVars>>

\* c <- true: the send goes through when the channel has room, and the goroutine
\* waits while it has none
Send(t) ==
    /\ t \in DOMAIN cancelling
    /\ cancelling[t].pc = "send"
    /\ \E c \in cancelling[t].found :
          /\ ~WouldBlock({c})
          /\ pollers' = SendCancel(pollers, {c})
          /\ cancelling' = [cancelling EXCEPT ![t].found = @ \ {c}]
    /\ call' = Call(cancelling[t].op, "sent", 0, t)
    /\ UNCHANGED <<goroutineCancels, blocked>>
    /\ UNCHANGED <<engineVars, chanVars, nativeVars, patVars, loopVars, extraVars>>

\* delete(s.goroutineCancels, cancelName) or clear(s.goroutineCancels) after the
\* sends; Close and a setter with a nil callback return here, and a callback that
\* made the call returns r
Forget(t, r) ==
    /\ t \in DOMAIN cancelling
    /\ cancelling[t].pc = "send"
    /\ cancelling[t].found = {}
    /\ goroutineCancels' = RegistryAfterCancel(cancelling[t].name)
    /\ IF cancelling[t].isNil
       THEN /\ t = Caller => r = "true"
            /\ cancelling' = MapDelete(cancelling, t)
            /\ pollers' = AfterCall(pollers, t, r)
            /\ call' = Call(cancelling[t].op, "nil", 0, t)
       ELSE /\ r = "true"
            /\ cancelling' = [cancelling EXCEPT ![t].pc = "go"]
            /\ call' = Call(cancelling[t].op, "forgot", 0, t)
            /\ UNCHANGED pollers
    /\ UNCHANGED blocked
    /\ UNCHANGED <<engineVars, chanVars, nativeVars, patVars, loopVars, extraVars>>

\* cancel := make(chan bool, 1), the go statement and
\* s.goroutineCancels[name] = cancel; the setter returns, and a callback that
\* made the call returns r
Register(t, r) ==
    /\ t \in DOMAIN cancelling
    /\ cancelling[t].pc = "go"
    /\ t = Caller => r = "true"
    /\ pollers' = Append(AfterCall(pollers, t, r), NewPoller(cancelling[t].name))
    /\ goroutineCancels' = MapPut(goroutineCancels, cancelling[t].name, Len(pollers) + 1)
    /\ cancelling' = MapDelete(cancelling, t)
    /\ call' = Call(cancelling[t].op, "func", 0, t)
    /\ UNCHANGED blocked
    /\ UNCHANGED <<engineVars, chanVars, nativeVars, patVars, loopVars, extraVars>>

\* the goroutines: the caller and the pollers
Goroutines == 0 .. MaxPollers


-----------------------------------------------------------------------------
(* float32 values and Go's conversion of them to int *)

\* A float32 is a number, an infinity or NaN. Numbers are counted in units the
\* inputs make exact: the arithmetic below never rounds on the input sets used.
Num(n) == [k |-> "num", n |-> n]

NaN == [k |-> "nan", n |-> 0]

\* sign is 1 for +Inf and -1 for -Inf
Inf(sign) == [k |-> "inf", n |-> sign]

\* the units of 1.0 in a completion fraction ("percent")
Frac == 4

\* float32 addition
FAdd(a, b) ==
    IF a.k = "nan" \/ b.k = "nan" THEN NaN
    ELSE IF a.k = "inf" /\ b.k = "inf" THEN IF a.n = b.n THEN a ELSE NaN
    ELSE IF a.k = "inf" THEN a
    ELSE IF b.k = "inf" THEN b
    ELSE Num(a.n + b.n)

\* float32 a > b and a < b: false when either side is NaN
FGt(a, b) ==
    /\ a.k # "nan" /\ b.k # "nan"
    /\ IF a.k = "inf" THEN a.n = 1 /\ b # a
       ELSE IF b.k = "inf" THEN b.n = -1
       ELSE a.n > b.n

FLt(a, b) == FGt(b, a)

\* float32 a >= b
FGe(a, b) == FGt(a, b) \/ (a.k # "nan" /\ a = b)

\* dt / duration of two numbers of seconds, as a fraction in units of 1/Frac:
\* x/0 is an infinity and 0/0 is NaN
FDiv(dt, duration) ==
    IF duration = 0
    THEN IF dt > 0 THEN Inf(1) ELSE IF dt < 0 THEN Inf(-1) ELSE NaN
    ELSE Num((Frac * dt) \div duration)

\* Update's two clamps of percent: "if > 1 then 1; if < 0 then 0"
ClampPercent(p) == IF FGt(p, Num(Frac)) THEN Num(Frac) ELSE IF FLt(p, Num(0)) THEN Num(0) ELSE p

\* Go's int(f) where f is n/unit: truncation towards zero
Trunc(n, unit) == IF n >= 0 THEN n \div unit ELSE 0 - ((0 - n) \div unit)

\* Go's int(NaN): the result depends on the target (the least int on x86, 0 on arm)
IntOfNaN == {(0 - MaxInt) - 1, 0}

-----------------------------------------------------------------------------
(* SunvoxModule: controllers *)

\* the number of controllers of the module: native controllers 0 .. NumControllers - 1
NumControllers == 1

\* every controller of the module ranges over MinCtl .. MaxCtl
MinCtl == 0

MaxCtl == 2

\* the controller numbers callers pass: 1 is the first controller
CtrlNums == -1 .. NumControllers

\* the module: every controller at its minimum
ModuleControllers == [c \in 0 .. NumControllers - 1 |-> [value |-> MinCtl, min |-> MinCtl, max |-> MaxCtl]]

\* the codes a controller query can return: what was asked for, or an error code
CtlCodes(ctrlNum, field) ==
    IF ctrlNum - 1 \in DOMAIN ctl THEN {-1, ctl[ctrlNum - 1][field]} ELSE {-1}

\* the entry points of the controllers that Init binds to the library
LibFuncs == {"sv_get_module_ctl_name", "sv_get_module_ctl_value", "sv_set_module_ctl_value"}

\* a controller accessor that reads: fn is the native function whose variable it
\* calls, res what that returns. A call of a variable that Init binds to nothing
\* panics.
ControllerRead(op, fn, ctrlNum, res) ==
    /\ IF ctrlNum <= 0
       THEN /\ trace' = << >>
            /\ call' = Call(op, "err", 0, ctrlNum)
       ELSE IF fn \notin LibFuncs
       THEN /\ trace' = << >>
            /\ call' = Call(op, "panic", 0, ctrlNum)
       ELSE /\ trace' = <<Native(fn, ctrlNum - 1)>>
            /\ call' = Call(op, IF res < 0 THEN "err" ELSE "nil", IF res < 0 THEN 0 ELSE res, ctrlNum)
    /\ UNCHANGED <<locked, moduleVars, cells, fadeVars, playingOf, closedHandles>>
    /\ UNCHANGED <<engineVars, chanVars, nativeVars, patVars, loopVars, pollVars>>

\* Module.ControllerValue
ControllerValue(ctrlNum, res) ==
    ControllerRead("ControllerValue", "sv_get_module_ctl_value", ctrlNum, res)

\* Module.ControllerName: the name is returned as the library gives it, without an error
ControllerName(ctrlNum) ==
    ControllerRead("ControllerName", "sv_get_module_ctl_name", ctrlNum, 0)

\* Module.ControllerMinimum
ControllerMinimum(ctrlNum, res) ==
    ControllerRead("ControllerMinimum", "sv_get_module_ctl_min", ctrlNum, res)

\* Module.ControllerMaximum: it calls getModuleCtlMin
ControllerMaximum(ctrlNum, res) ==
    ControllerRead("ControllerMaximum", "sv_get_module_ctl_min", ctrlNum, res)

\* the library keeps a controller within its range
InCtlRange(c, value) ==
    IF value < ctl[c].min THEN ctl[c].min ELSE IF value > ctl[c].max THEN ctl[c].max ELSE value

\* the native calls of SetControllerValue when it rejects every controller
\* number below 0 only
SetValueCallsFromZero(ctrlNum) ==
    IF ctrlNum < 0 THEN << >> ELSE <<Native("sv_set_module_ctl_value", ctrlNum - 1)>>

\* the native calls of Module.SetControllerValue
SetValueCalls(ctrlNum) ==
    IF ctrlNum <= 0 THEN << >> ELSE <<Native("sv_set_module_ctl_value", ctrlNum - 1)>>

\* the controllers after Module.SetControllerValue, res being the code
\* sv_set_module_ctl_value returns
SetValue(ctrlNum, value, res) ==
    IF SetValueCalls(ctrlNum) # << >> /\ res >= 0 /\ ctrlNum - 1 \in DOMAIN ctl
    THEN [ctl EXCEPT ![ctrlNum - 1].value = InCtlRange(ctrlNum - 1, value)]
    ELSE ctl

\* Module.SetControllerValue
SetControllerValue(ctrlNum, value, res) ==
    /\ trace' = SetValueCalls(ctrlNum)
    /\ ctl' = SetValue(ctrlNum, value, res)
    /\ call' = Call("SetControllerValue",
                    IF trace' = << >> \/ res < 0 THEN "err" ELSE "nil", value, ctrlNum)
    /\ UNCHANGED <<locked, muted, links, cells, fadeVars, playingOf, closedHandles>>
    /\ UNCHANGED <<engineVars, chanVars, nativeVars, patVars, loopVars, pollVars>>

-----------------------------------------------------------------------------
(* VolumeFade and ControllerFade *)

\* the units of 1.0 in a volume: a float32 volume v is the number v * VolUnit
VolUnit == 1024

\* the most Update calls made on one fade object
MaxUpdates == 2

\* the seconds passed to Update and to the constructors
Deltas == {-1, 0, 1, 2}

Durations == {0, 2, 4}

\* a fade object right after its constructor; elapsed, completions and stops are
\* history: the seconds passed to Update, the Updates that reported completion
\* and the Stop calls Update made, each since the constructor or the last
\* Restart; updates counts the Update calls on the object
NewFade(kind, start, end, seconds, controller) ==
    [kind |-> kind, start |-> start, end |-> end, duration |-> seconds,
     percent |-> Num(0), controller |-> controller, value |-> Num(0),
     elapsed |-> 0, completions |-> 0, stops |-> 0, updates |-> 0]

\* VolumeFade.Restart and ControllerFade.Restart
Restart ==
    /\ fade.kind # "none"
    /\ fade' = [fade EXCEPT !.percent = Num(0), !.elapsed = 0, !.completions = 0, !.stops = 0]
    /\ trace' = << >>
    /\ call' = Call("Restart", "", 0, 0)
    /\ UNCHANGED <<locked, moduleVars, cells, volume, playingOf, closedHandles>>
    /\ UNCHANGED <<engineVars, chanVars, nativeVars, patVars, loopVars, pollVars>>

\* "f.percent += dt / f.duration" and the two clamps
Advanced(percent, dt, duration) == ClampPercent(FAdd(percent, FDiv(dt, duration)))

\* start + percent * (end - start), of numbers in the same unit
Lerp(start, end, percent) ==
    IF percent.k = "nan" THEN NaN ELSE Num(start + (percent.n * (end - start)) \div Frac)

\* "f.percent >= 1"
Complete(percent) == FGe(percent, Num(Frac))

\* the fade after an Update that brought it to percent, returned value and
\* called Stop when stopped
Updated(f, dt, percent, value, stopped) ==
    [f EXCEPT !.percent = percent, !.value = value,
              !.elapsed = @ + dt, !.updates = @ + 1,
              !.completions = IF Complete(percent) THEN @ + 1 ELSE @,
              !.stops = IF stopped THEN @ + 1 ELSE @]

\* Channel.Volume, res being the code sv_volume returns for a negative volume:
\* res / 256, and 0 on an error
VolumeRead(res) == IF res < 0 THEN 0 ELSE res * (VolUnit \div 256)

\* the codes sv_volume returns for a negative volume: the volume of the slot, or an error
VolumeCodes == {-1, volume}

\* the volumes passed to NewVolumeFade: 0 and 1, and a negative one that asks
\* for the channel's volume
FadeVolumes == {0 - VolUnit, 0, VolUnit}

\* NewVolumeFade(start, end, seconds, channel)
NewVolumeFade(start, end, seconds, res1, res2) ==
    /\ fade' = NewFade("volume",
                       IF start < 0 THEN VolumeRead(res1) ELSE start,
                       IF end < 0 THEN VolumeRead(res2) ELSE end, seconds, 0)
    /\ trace' = (IF start < 0 THEN <<Native("sv_volume", -1)>> ELSE << >>)
                \o (IF end < 0 THEN <<Native("sv_volume", -1)>> ELSE << >>)
    /\ call' = Call("NewVolumeFade", "", 0, 0)
    /\ UNCHANGED <<locked, moduleVars, cells, volume, playingOf, closedHandles>>
    /\ UNCHANGED <<engineVars, chanVars, nativeVars, patVars, loopVars, pollVars>>

\* the integers Channel.SetVolume(v) can pass to sv_volume: int(v * 256) after
\* the two clamps, which let NaN through
VolumeArgs(v) ==
    LET clamped == IF FGt(v, Num(VolUnit)) THEN Num(VolUnit)
                   ELSE IF FLt(v, Num(0)) THEN Num(0) ELSE v
    IN  IF clamped.k = "nan" THEN IntOfNaN ELSE {Trunc(clamped.n * 256, VolUnit)}

\* sv_volume: a negative volume is ignored
VolumeAfter(arg) == IF arg < 0 THEN volume ELSE arg

\* the native calls of Channel.Stop
StopCalls == <<Native("sv_pause", 0)>>
             \o (IF IsValid THEN <<Native("sv_stop", 0)>> ELSE << >>)
             \o <<Native("sv_resume", 0)>>

\* the volumes passed to SetVolume: numbers below 0, in [0, 1] and above 1,
\* the infinities and NaN
VolumeInputs ==
    {Num(n) : n \in {0 - VolUnit, -1, 0, 1, 3, 4, 5, VolUnit \div 2 - 1, VolUnit \div 2,
                     VolUnit - 1, VolUnit, VolUnit + 1, 2 * VolUnit}}
    \cup {Inf(1), Inf(-1), NaN}

\* Channel.SetVolume
SetVolume(v) ==
    /\ \E arg \in VolumeArgs(v) :
         /\ volume' = VolumeAfter(arg)
         /\ trace' = <<Native("sv_volume", arg)>>
         /\ call' = Call("SetVolume", "", arg, v)
    /\ UNCHANGED <<locked, moduleVars, cells, fade, playingOf, closedHandles>>
    /\ UNCHANGED <<engineVars, chanVars, nativeVars, patVars, loopVars, pollVars>>

\* Channel.Volume, res being the code sv_volume returns
Volume(res) ==
    /\ trace' = <<Native("sv_volume", -1)>>
    /\ call' = Call("Volume", IF res < 0 THEN "err" ELSE "nil", VolumeRead(res), 0)
    /\ UNCHANGED <<locked, moduleVars, cells, fadeVars, playingOf, closedHandles>>
    /\ UNCHANGED <<engineVars, chanVars, nativeVars, patVars, loopVars, pollVars>>

\* VolumeFade.Update(dt), res being the code sv_stop returns
VolumeFadeUpdate(dt, res) ==
    /\ fade.kind = "volume"
    /\ fade.updates < MaxUpdates
    /\ LET percent == Advanced(fade.percent, dt, fade.duration)
           targetVolume == Lerp(fade.start, fade.end, percent)
           stopped == Complete(percent) /\ fade.end <= 0
       IN  /\ fade' = Updated(fade, dt, percent, targetVolume, stopped)
           /\ \E arg \in (IF IsValid THEN VolumeArgs(targetVolume) ELSE {-1}) :
                /\ volume' = (IF IsValid THEN VolumeAfter(arg) ELSE volume)
                /\ trace' = (IF IsValid THEN <<Native("sv_volume", arg)>> ELSE << >>)
                            \o (IF stopped THEN StopCalls ELSE << >>)
           /\ playing' = (IF stopped /\ IsValid /\ res >= 0 THEN FALSE ELSE playing)
           /\ nativePlaying' = (IF stopped /\ IsValid /\ res >= 0 THEN FALSE ELSE nativePlaying)
           /\ call' = Call("VolumeFade.Update", IF Complete(percent) THEN "true" ELSE "false",
                           IF stopped /\ IsValid THEN res ELSE 0, 0)
    /\ UNCHANGED <<locked, moduleVars, cells, playingOf, closedHandles>>
    /\ UNCHANGED <<byteData, filename, hasPlayed, nativeProject, curLine>>
    /\ UNCHANGED <<engineVars, patVars, loopVars, pollVars>>

\* the start and end values passed to NewControllerFade: controller values, and
\* a negative one that asks for the controller's value
FadeValues == {-1, MinCtl, MaxCtl}

\* Module.ControllerValue as the constructor uses it: the value, and 0 on an error
ValueRead(controller, res) == IF controller <= 0 \/ res < 0 THEN 0 ELSE res

\* the native calls of that
ValueReadCalls(controller) ==
    IF controller <= 0 THEN << >> ELSE <<Native("sv_get_module_ctl_value", controller - 1)>>

\* NewControllerFade(start, end, seconds, module, controller)
NewControllerFade(start, end, seconds, controller, res1, res2) ==
    /\ fade' = NewFade("controller",
                       IF start < 0 THEN ValueRead(controller, res1) ELSE start,
                       IF end < 0 THEN ValueRead(controller, res2) ELSE end,
                       seconds, controller)
    /\ trace' = (IF start < 0 THEN ValueReadCalls(controller) ELSE << >>)
                \o (IF end < 0 THEN ValueReadCalls(controller) ELSE << >>)
    /\ call' = Call("NewControllerFade", "", 0, controller)
    /\ UNCHANGED <<locked, moduleVars, cells, volume, playingOf, closedHandles>>
    /\ UNCHANGED <<engineVars, chanVars, nativeVars, patVars, loopVars, pollVars>>

\* the integers int(f) can be
IntOf(f, unit) == IF f.k = "nan" THEN IntOfNaN ELSE {Trunc(f.n, unit)}

\* ControllerFade.Update(dt): valid is what Module.IsValid finds, res the code
\* sv_set_module_ctl_value returns
ControllerFadeUpdate(dt, valid, res) ==
    /\ fade.kind = "controller"
    /\ fade.updates < MaxUpdates
    /\ LET percent == Advanced(fade.percent, dt, fade.duration)
       IN  \E targetValue \in IntOf(Lerp(Frac * fade.start, Frac * fade.end, percent), Frac) :
             /\ fade' = Updated(fade, dt, percent, Num(targetValue), FALSE)
             /\ ctl' = (IF valid THEN SetValue(fade.controller, targetValue, res) ELSE ctl)
             /\ trace' = <<Native("sv_get_module_flags", 0)>>
                         \o (IF valid THEN SetValueCalls(fade.controller) ELSE << >>)
             /\ call' = Call("ControllerFade.Update",
                             IF Complete(percent) THEN "true" ELSE "false",
                             IF valid /\ SetValueCalls(fade.controller) # << >> THEN res ELSE 0,
                             fade.controller)
    /\ UNCHANGED <<locked, muted, links, cells, volume, playingOf, closedHandles>>
    /\ UNCHANGED <<engineVars, chanVars, nativeVars, patVars, loopVars, pollVars>>

-----------------------------------------------------------------------------
(* SunvoxPatternData: the note cells of a pattern *)

\* the tracks and lines of the pattern whose data is read and written
NumTracks == 2

NumLines == 2

\* the most Data() views taken of the pattern, and the most cells written
MaxViews == 2

MaxEdits == 1

\* the fields of SunvoxPatternNoteData
Fields == {"Note", "Velocity", "Module", "Controller", "ControllerValue"}

\* a cell of a new pattern
EmptyCell == [Note |-> 0, Velocity |-> 0, Module |-> 0, Controller |-> 0, ControllerValue |-> 0]

\* uint8 for Note and Velocity, uint16 for the other fields
Width(field) == IF field \in {"Note", "Velocity"} THEN 256 ELSE 65536

\* the track and line numbers passed to the accessors
TrackNums == -1 .. NumTracks

LineNums == 0 .. NumLines

\* the values passed to the setters: the least and the greatest of the field
Values(field) == {0, Width(field) - 1}

\* no setter has returned nil yet
NoSet == [op |-> "none", view |-> 0, taken |-> 0, track |-> 0, line |-> 0, value |-> 0]

\* the pattern's cells, lines by tracks, with no view taken; set is history: the
\* last setter call, if it returned nil, with the number of views taken by
\* then; edits counts the cells written
NewPatternData ==
    [data |-> [i \in 1 .. NumLines * NumTracks |-> EmptyCell], views |-> 0,
     set |-> NoSet, edits |-> 0]

\* Pattern.Data: a view of the native cells, unless LineCount or TrackCount fails
Data(ok) ==
    /\ cells.views < MaxViews
    /\ cells' = [cells EXCEPT !.views = IF ok THEN @ + 1 ELSE @]
    /\ call' = Call("Data", IF ok THEN "nil" ELSE "err", 0, IF ok THEN cells.views + 1 ELSE 0)
    /\ UNCHANGED <<lockVars, moduleVars, fadeVars, playingOf, closedHandles>>
    /\ UNCHANGED <<engineVars, chanVars, nativeVars, patVars, loopVars, pollVars>>

\* noteData's index of a cell: "trackNum + (lineNum * s.trackCount)"
CellIndex(trackNum, lineNum) == trackNum + (lineNum * NumTracks)

\* noteData: an error, a panic of the index expression s.Data[i] when i is
\* len(s.Data), or the cell
NoteData(trackNum, lineNum) ==
    LET i == CellIndex(trackNum, lineNum)
    IN  IF i < 0 \/ i > Len(cells.data) THEN "err"
        ELSE IF i >= Len(cells.data) THEN "panic"
        ELSE "cell"

\* what every setter would store if it stored its argument plus one
StoredPlusOne(field, value) == (value + 1) % Width(field)

\* what a setter stores for its argument: SetModule adds one, SetController
\* takes one away
Stored(field, value) ==
    IF field = "Module" THEN (value + 1) % Width(field)
    ELSE IF field = "Controller" THEN (value + Width(field) - 1) % Width(field)
    ELSE value

\* what a getter returns for the value stored: Module adds one, Controller
\* takes one away
Got(field, stored) ==
    IF field = "Module" THEN (stored + 1) % Width(field)
    ELSE IF field = "Controller" THEN (stored + Width(field) - 1) % Width(field)
    ELSE stored

\* a getter of a field, called on a view
Get(op, field, view, trackNum, lineNum) ==
    /\ view \in 1 .. cells.views
    /\ LET found == NoteData(trackNum, lineNum)
           i == CellIndex(trackNum, lineNum)
       IN  call' = Call(op, IF found = "cell" THEN "nil" ELSE found,
                        IF found = "cell" THEN Got(field, cells.data[i + 1][field]) ELSE 0,
                        <<view, trackNum, lineNum>>)
    /\ UNCHANGED extraVars
    /\ UNCHANGED <<engineVars, chanVars, nativeVars, patVars, loopVars, pollVars>>

\* a setter of a field, called on a view
Set(op, field, view, trackNum, lineNum, value) ==
    /\ view \in 1 .. cells.views
    /\ cells.edits < MaxEdits
    /\ LET found == NoteData(trackNum, lineNum)
           i == CellIndex(trackNum, lineNum)
       IN  /\ call' = Call(op, IF found = "cell" THEN "nil" ELSE found, value,
                           <<view, trackNum, lineNum>>)
           /\ cells' = IF found = "cell"
                       THEN [cells EXCEPT !.data[i + 1][field] = Stored(field, value),
                                          !.edits = @ + 1,
                                          !.set = [op |-> op, view |-> view,
                                                   taken |-> cells.views, track |-> trackNum,
                                                   line |-> lineNum, value |-> value]]
                       ELSE [cells EXCEPT !.set = NoSet]
    /\ UNCHANGED <<lockVars, moduleVars, fadeVars, playingOf, closedHandles>>
    /\ UNCHANGED <<engineVars, chanVars, nativeVars, patVars, loopVars, pollVars>>

Note(view, trackNum, lineNum) == Get("Note", "Note", view, trackNum, lineNum)

SetNote(view, trackNum, lineNum, value) == Set("SetNote", "Note", view, trackNum, lineNum, value)

Velocity(view, trackNum, lineNum) == Get("Velocity", "Velocity", view, trackNum, lineNum)

SetVelocity(view, trackNum, lineNum, value) ==
    Set("SetVelocity", "Velocity", view, trackNum, lineNum, value)

Module(view, trackNum, lineNum) == Get("Module", "Module", view, trackNum, lineNum)

SetModule(view, trackNum, lineNum, value) == Set("SetModule", "Module", view, trackNum, lineNum, value)

Controller(view, trackNum, lineNum) == Get("Controller", "Controller", view, trackNum, lineNum)

SetController(view, trackNum, lineNum, value) ==
    Set("SetController", "Controller", view, trackNum, lineNum, value)

\* SunvoxPatternData.ControllerValue
CellControllerValue(view, trackNum, lineNum) ==
    Get("Data.ControllerValue", "ControllerValue", view, trackNum, lineNum)

\* SunvoxPatternData.SetControllerValue
SetCellControllerValue(view, trackNum, lineNum, value) ==
    Set("Data.SetControllerValue", "ControllerValue", view, trackNum, lineNum, value)

-----------------------------------------------------------------------------
(* SunvoxEngine.ChannelByID *)

\* the values of ChannelInUseType
ChannelInUseTypes ==
    {"ChannelAny", "ChannelInUse", "ChannelInUseMaybe", "ChannelNotInUse", "ChannelNotInUseMaybe"}

\* the IDs channels are created with and looked up by
PoolIDs == {"music", "sfx"}

\* the switch of ChannelByID if its Maybe cases did not fall through: they
\* would take no channel
TakesWithoutFallthrough(inUse, isPlaying) ==
    IF inUse = "ChannelInUse" THEN isPlaying
    ELSE IF inUse = "ChannelNotInUse" THEN ~isPlaying
    ELSE inUse = "ChannelAny"

\* the switch of ChannelByID on a channel with the ID: whether the channel is returned
Takes(inUse, isPlaying) ==
    IF inUse \in {"ChannelInUseMaybe", "ChannelInUse"} THEN isPlaying
    ELSE IF inUse \in {"ChannelNotInUseMaybe", "ChannelNotInUse"} THEN ~isPlaying
    ELSE TRUE

\* the loop of ChannelByID over the indices 0 .. 15: the index of the first
\* channel taken, else NoIndex
Scanned(id, inUse) ==
    LET taken == {i \in 0 .. MaxChannels - 1 :
                    /\ i \in DOMAIN channels
                    /\ channels[i].ID = id
                    /\ Takes(inUse, playingOf[i])}
    IN  IF taken = {} THEN NoIndex ELSE Min(taken)

\* the channel ChannelByID returns, by its index: NoIndex for nil
Found(id, inUse) ==
    IF Scanned(id, inUse) # NoIndex THEN Scanned(id, inUse)
    ELSE IF inUse \in {"ChannelInUseMaybe", "ChannelNotInUseMaybe"} THEN Scanned(id, "ChannelAny")
    ELSE NoIndex

\* Engine.ChannelByID
ChannelByID(id, inUse) ==
    /\ call' = Call("ChannelByID", IF Found(id, inUse) = NoIndex THEN "nil" ELSE "channel",
                    Found(id, inUse), <<id, inUse>>)
    /\ UNCHANGED extraVars
    /\ UNCHANGED <<engineVars, chanVars, nativeVars, patVars, loopVars, pollVars>>

-----------------------------------------------------------------------------
(* Specifications *)

\* no fade object
NoFade == [kind |-> "none"]

\* no pattern or module operation made yet, the slot unlocked and at full volume,
\* no module, no pattern data, no fade
ExtraInitial ==
    /\ trace = << >>
    /\ locked = 0
    /\ muted = {}
    /\ links = {}
    /\ ctl = << >>
    /\ cells = << >>
    /\ volume = 256
    /\ fade = NoFade
    /\ playingOf = << >>
    /\ closedHandles = {}

ChannelInitial ==
    /\ playing = FALSE
    /\ byteData = 0
    /\ filename = 0
    /\ hasPlayed = FALSE
    /\ hasCustomLoop = FALSE
    /\ customLoopStart = 0
    /\ customLoopEnd = 0
    /\ loopCall = NoLoopCall
    /\ nativeProject = 0
    /\ nativePlaying = FALSE
    /\ curLine = 0
    /\ patternCache = << >>
    /\ pollers = << >>
    /\ goroutineCancels = << >>
    /\ blocked = FALSE
    /\ cancelling = << >>

\* a slot with no pattern
NoPatterns == patterns = << >>

\* the engine before Init
InitEngine ==
    /\ Initialized = FALSE
    /\ Version = <<0, 0, 0>>
    /\ channels = << >>
    /\ handles = 0
    /\ slotOpen = {}
    /\ refused = FALSE
    /\ ChannelInitial
    /\ NoPatterns
    /\ ExtraInitial
    /\ call = Call("none", "nil", 0, NoIndex)

NextEngine ==
    \/ \E loaded \in BOOLEAN, ver \in VerCodes : EngineInit(loaded, ver)
    \/ \E id \in IDs, res \in NativeCodes : CreateChannel(id, res)
    \/ \E i \in Closable, res \in NativeCodes : Close(i, res)

\* the engine and its pool of channels
SpecEngine == InitEngine /\ [][NextEngine]_vars

NextHandle ==
    \/ \E loaded \in BOOLEAN, ver \in VerCodes : EngineInit(loaded, ver)
    \/ \E id \in IDs, res \in NativeCodes : CreateChannel(id, res)
    \/ \E i \in Closable, again \in BOOLEAN, res \in NativeCodes :
          CloseHandle(i, again, res)

\* the engine, and a caller that keeps the channel objects it has closed
SpecHandle == InitEngine /\ [][NextHandle]_vars

NextInit ==
    \/ \E loaded \in BOOLEAN, ver \in VerCodes : EngineInit(loaded, ver)
    \/ \E loaded \in BOOLEAN, ver \in VerCodes : InitFromDirectory(loaded, ver)
    \/ \E id \in IDs, res \in NativeCodes : CreateChannel(id, res)
    \/ \E i \in Closable, res \in NativeCodes : Close(i, res)

\* the engine, initialized by path or by directory, and its pool of channels
SpecInit == InitEngine /\ [][NextInit]_vars

NextDeinit ==
    \/ \E loaded \in BOOLEAN, ver \in VerCodes : EngineInit(loaded, ver)
    \/ \E bound \in BOOLEAN, res \in NativeCodes : Deinit(bound, res)
    \/ \E id \in IDs, res \in NativeCodes : CreateChannel(id, res)
    \/ \E i \in Closable, res \in NativeCodes : Close(i, res)

\* the engine, initialized and deinitialized, and its pool of channels
SpecDeinit == InitEngine /\ [][NextDeinit]_vars

\* an initialized engine right after its first CreateChannel
InitChannel ==
    /\ Initialized = TRUE
    /\ Version = <<1, 9, 6>>
    /\ channels = (0 :> newSunvoxChannel("music", 0))
    /\ handles = 1
    /\ slotOpen = {0}
    /\ refused = FALSE
    /\ ChannelInitial
    /\ NoPatterns
    /\ ExtraInitial
    /\ call = Call("CreateChannel", "nil", 0, 0)

\* the codes the library returns for a slot: an error when the slot is not open
SlotCodes == IF 0 \in slotOpen THEN NativeCodes ELSE {-1}

\* the codes sv_load_from_memory returns when, as the comment on
\* LoadFileFromBytes has it, the library fails every load on a channel that has
\* begun to play
LoadCodesAsDocumented == IF hasPlayed THEN SlotCodes \ {0} ELSE SlotCodes

NextChannel ==
    \/ \E d \in Projects, c \in SlotCodes : LoadFileFromBytes(d, c)
    \/ \E f \in Projects, ok \in BOOLEAN, c \in SlotCodes : LoadFileFromPath(f, ok, c)
    \/ \E f \in Projects, ok \in BOOLEAN, c \in SlotCodes : LoadFileFromFS(f, ok, c)
    \/ \E c \in SlotCodes : PlayFromBeginning(c)
    \/ \E c \in SlotCodes : Play(c)
    \/ \E l \in Lines, c \in SlotCodes : Seek(l, c)
    \/ \E c \in SlotCodes : Stop(c)
    \/ \E l \in Lines : LineAdvance(l)
    \/ SongEnd
    \/ \E c \in SlotCodes : Close(0, c)
    \/ 0 \notin DOMAIN channels /\ \E id \in IDs : CreateChannel(id, 0)

NextChannelAsDocumented ==
    \/ \E d \in Projects, c \in LoadCodesAsDocumented : LoadFileFromBytes(d, c)
    \/ \E f \in Projects, ok \in BOOLEAN, c \in LoadCodesAsDocumented : LoadFileFromPath(f, ok, c)
    \/ \E f \in Projects, ok \in BOOLEAN, c \in LoadCodesAsDocumented : LoadFileFromFS(f, ok, c)
    \/ \E c \in SlotCodes : PlayFromBeginning(c)
    \/ \E c \in SlotCodes : Play(c)
    \/ \E l \in Lines, c \in SlotCodes : Seek(l, c)
    \/ \E c \in SlotCodes : Stop(c)
    \/ \E l \in Lines : LineAdvance(l)
    \/ SongEnd
    \/ \E c \in SlotCodes : Close(0, c)
    \/ 0 \notin DOMAIN channels /\ \E id \in IDs : CreateChannel(id, 0)

\* one channel: loading, playback, closing and re-creating it
SpecChannel == InitChannel /\ [][NextChannel]_vars

\* the same, with a library that refuses to load into a channel that has played
SpecChannelAsDocumented == InitChannel /\ [][NextChannelAsDocumented]_vars

\* two patterns overlap when they share lines on the same row
Overlap(p, q) == p.y = q.y /\ p.x < q.x + q.lines /\ q.x < p.x + p.lines

\* a pattern slot holding a pattern
PatternSlots == [x : PatternXs, y : {0}, lines : PatternLineCounts]

\* the projects: NumPatterns pattern slots, no two patterns overlapping
Layouts ==
    {l \in [1 .. NumPatterns -> PatternSlots] :
        \A i, j \in Existing(l) : i # j => ~Overlap(l[i], l[j])}

\* a channel that has loaded a project, on an initialized engine
InitLoop ==
    /\ Initialized = TRUE
    /\ Version = <<1, 9, 6>>
    /\ channels = (0 :> newSunvoxChannel("music", 0))
    /\ handles = 1
    /\ slotOpen = {0}
    /\ refused = FALSE
    /\ playing = FALSE
    /\ byteData = 1
    /\ filename = 0
    /\ hasPlayed = FALSE
    /\ hasCustomLoop = FALSE
    /\ customLoopStart = 0
    /\ customLoopEnd = 0
    /\ loopCall = NoLoopCall
    /\ nativeProject = 1
    /\ nativePlaying = FALSE
    /\ curLine = 0
    /\ patternCache = << >>
    /\ pollers = << >>
    /\ goroutineCancels = << >>
    /\ blocked = FALSE
    /\ cancelling = << >>
    /\ patterns \in Layouts
    /\ ExtraInitial
    /\ call = Call("LoadFileFromBytes", "nil", 0, 1)

NextLoop ==
    \/ \E a \in LoopStarts, b \in LoopEnds : SetCustomLoop(a, b)
    \/ ResetCustomLoop

\* one channel and the custom loops set on its project
SpecLoop == InitLoop /\ [][NextLoop]_vars

\* two patterns side by side, the second one line after the first
TouchLayout == <<[x |-> 0, y |-> 0, lines |-> 1], [x |-> 1, y |-> 1, lines |-> 1]>>

\* a channel that has loaded a project of two patterns, has asked each pattern
\* for its line count and plays the project from the beginning; no callback has
\* been set
InitPoller ==
    /\ Initialized = TRUE
    /\ Version = <<1, 9, 6>>
    /\ channels = (0 :> newSunvoxChannel("music", 0))
    /\ handles = 1
    /\ slotOpen = {0}
    /\ refused = FALSE
    /\ playing = TRUE
    /\ byteData = 1
    /\ filename = 0
    /\ hasPlayed = TRUE
    /\ nativeProject = 1
    /\ nativePlaying = TRUE
    /\ curLine = -1
    /\ hasCustomLoop = FALSE
    /\ customLoopStart = 0
    /\ customLoopEnd = 0
    /\ loopCall = NoLoopCall
    /\ patterns = TouchLayout
    /\ patternCache = Cached(TouchLayout, << >>, DOMAIN TouchLayout)
    /\ pollers = << >>
    /\ goroutineCancels = << >>
    /\ blocked = FALSE
    /\ cancelling = << >>
    /\ ExtraInitial
    /\ call = Call("PlayFromBeginning", "nil", 0, 0)

NextPoller ==
    \/ \E isNil \in BOOLEAN : SetOnCurrentLineChange(isNil)
    \/ \E isNil \in BOOLEAN : SetOnPatternTouch(isNil)
    \/ \E c \in SlotCodes : Close(0, c)
    \/ \E l \in Lines : LineAdvance(l)
    \/ \E p \in 1..MaxPollers : Select(p)
    \/ \E p \in 1..MaxPollers, r \in {"true", "false"} : PollLine(p, r)
    \/ \E p \in 1..MaxPollers : PollTouch(p)
    \/ \E p \in 1..MaxPollers, r \in {"true", "false"} : Notify(p, r)

\* a playing channel, its caller and the pollers the caller starts
SpecPoller == InitPoller /\ [][NextPoller]_vars

NextLinePoller ==
    \/ \E isNil \in BOOLEAN : SetOnCurrentLineChange(isNil)
    \/ \E c \in SlotCodes : Play(c)
    \/ \E c \in SlotCodes : Stop(c)
    \/ \E l \in Lines, c \in SlotCodes : Seek(l, c)
    \/ \E l \in Lines : LineAdvance(l)
    \/ \E p \in 1..MaxPollers : Select(p)
    \/ \E p \in 1..MaxPollers, r \in {"true", "false"} : PollLine(p, r)

\* a channel whose caller sets and unsets the line callback while it plays,
\* stops and seeks
SpecLinePoller == InitPoller /\ [][NextLinePoller]_vars

\* the same channel after Stop, its playhead resting on line 0
InitStopped ==
    /\ Initialized = TRUE
    /\ Version = <<1, 9, 6>>
    /\ channels = (0 :> newSunvoxChannel("music", 0))
    /\ handles = 1
    /\ slotOpen = {0}
    /\ refused = FALSE
    /\ playing = FALSE
    /\ byteData = 1
    /\ filename = 0
    /\ hasPlayed = TRUE
    /\ nativeProject = 1
    /\ nativePlaying = FALSE
    /\ curLine = 0
    /\ hasCustomLoop = FALSE
    /\ customLoopStart = 0
    /\ customLoopEnd = 0
    /\ loopCall = NoLoopCall
    /\ patterns = TouchLayout
    /\ patternCache = Cached(TouchLayout, << >>, DOMAIN TouchLayout)
    /\ pollers = << >>
    /\ goroutineCancels = << >>
    /\ blocked = FALSE
    /\ cancelling = << >>
    /\ ExtraInitial
    /\ call = Call("Stop", "nil", 0, 0)

NextStopped ==
    \/ \E isNil \in BOOLEAN : SetOnCurrentLineChange(isNil)
    \/ \E isNil \in BOOLEAN : SetOnPatternTouch(isNil)
    \/ \E c \in SlotCodes : Close(0, c)
    \/ \E p \in 1..MaxPollers : Select(p)
    \/ \E p \in 1..MaxPollers, r \in {"true", "false"} : PollLine(p, r)
    \/ \E p \in 1..MaxPollers : PollTouch(p)
    \/ \E p \in 1..MaxPollers, r \in {"true", "false"} : Notify(p, r)

\* a stopped channel, its caller and the pollers, under a scheduler that lets
\* every goroutine that can run take its step
SpecStoppedFair ==
    InitStopped /\ [][NextStopped]_vars /\ \A p \in 1..MaxPollers : WF_vars(PollerStep(p))

NextCancel ==
    \/ \E t \in Goroutines, name \in Names, isNil \in BOOLEAN : Lookup(t, name, isNil)
    \/ \E res \in SlotCodes : CloseSlot(res)
    \/ \E t \in Goroutines : Send(t)
    \/ \E t \in Goroutines, r \in {"true", "false"} : Forget(t, r)
    \/ \E t \in Goroutines, r \in {"true", "false"} : Register(t, r)
    \/ \E p \in 1..MaxPollers : Select(p)
    \/ \E p \in 1..MaxPollers, r \in {"true", "false"} : PollLine(p, r)
    \/ \E p \in 1..MaxPollers : PollTouch(p)
    \/ \E p \in 1..MaxPollers, r \in {"true", "false"} : Notify(p, r)

\* a stopped channel whose caller and whose callbacks set the callbacks, each
\* goroutine at its own pace
SpecCancel == InitStopped /\ [][NextCancel]_vars

\* a channel that has loaded project 1 on an initialized engine and has not played
LoadedChannel ==
    /\ Initialized = TRUE
    /\ Version = <<1, 9, 6>>
    /\ channels = (0 :> newSunvoxChannel("music", 0))
    /\ handles = 1
    /\ slotOpen = {0}
    /\ refused = FALSE
    /\ playing = FALSE
    /\ byteData = 1
    /\ filename = 0
    /\ hasPlayed = FALSE
    /\ hasCustomLoop = FALSE
    /\ customLoopStart = 0
    /\ customLoopEnd = 0
    /\ loopCall = NoLoopCall
    /\ nativeProject = 1
    /\ nativePlaying = FALSE
    /\ curLine = 0
    /\ patternCache = << >>
    /\ pollers = << >>
    /\ goroutineCancels = << >>
    /\ blocked = FALSE
    /\ cancelling = << >>

\* the channel, one module of its project and no fade yet
InitModule ==
    /\ LoadedChannel
    /\ NoPatterns
    /\ trace = << >>
    /\ locked = 0
    /\ muted = {}
    /\ links = {}
    /\ ctl = ModuleControllers
    /\ cells = << >>
    /\ volume = 256
    /\ fade = NoFade
    /\ playingOf = << >>
    /\ closedHandles = {}
    /\ call = Call("LoadFileFromBytes", "nil", 0, 1)

\* the seconds the fades of a controller take
ShortDurations == {0, 2}

NextModule ==
    \/ \E n \in CtrlNums : \E res \in CtlCodes(n, "value") : ControllerValue(n, res)
    \/ \E n \in CtrlNums : ControllerName(n)
    \/ \E n \in CtrlNums : \E res \in CtlCodes(n, "min") : ControllerMinimum(n, res)
    \/ \E n \in CtrlNums : \E res \in CtlCodes(n, "min") : ControllerMaximum(n, res)
    \/ \E n \in CtrlNums, v \in MinCtl .. MaxCtl, res \in NativeCodes : SetControllerValue(n, v, res)
    \/ /\ fade = NoFade
       /\ \E seconds \in ShortDurations, n \in CtrlNums :
            \E res \in CtlCodes(n, "value") :
              NewControllerFade(MinCtl, MaxCtl, seconds, n, res, res)
    \/ Restart
    \/ \E dt \in Deltas, valid \in BOOLEAN, res \in NativeCodes : ControllerFadeUpdate(dt, valid, res)

\* one module, its controllers and a fade of one of them
SpecModule == InitModule /\ [][NextModule]_vars


\* the channel and the note cells of one pattern of its project
InitData ==
    /\ LoadedChannel
    /\ patterns = <<[x |-> 0, y |-> 0, lines |-> NumLines]>>
    /\ trace = << >>
    /\ locked = 0
    /\ muted = {}
    /\ links = {}
    /\ ctl = << >>
    /\ cells = NewPatternData
    /\ volume = 256
    /\ fade = NoFade
    /\ playingOf = << >>
    /\ closedHandles = {}
    /\ call = Call("LoadFileFromBytes", "nil", 0, 1)

NextData ==
    \/ \E ok \in BOOLEAN : Data(ok)
    \/ \E w \in 1 .. MaxViews, t \in TrackNums, l \in LineNums : Note(w, t, l)
    \/ \E w \in 1 .. MaxViews, t \in TrackNums, l \in LineNums : Velocity(w, t, l)
    \/ \E w \in 1 .. MaxViews, t \in TrackNums, l \in LineNums : Module(w, t, l)
    \/ \E w \in 1 .. MaxViews, t \in TrackNums, l \in LineNums : Controller(w, t, l)
    \/ \E w \in 1 .. MaxViews, t \in TrackNums, l \in LineNums : CellControllerValue(w, t, l)
    \/ \E w \in 1 .. MaxViews, t \in TrackNums, l \in LineNums :
         \E v \in Values("Note") : SetNote(w, t, l, v)
    \/ \E w \in 1 .. MaxViews, t \in TrackNums, l \in LineNums :
         \E v \in Values("Velocity") : SetVelocity(w, t, l, v)
    \/ \E w \in 1 .. MaxViews, t \in TrackNums, l \in LineNums :
         \E v \in Values("Module") : SetModule(w, t, l, v)
    \/ \E w \in 1 .. MaxViews, t \in TrackNums, l \in LineNums :
         \E v \in Values("Controller") : SetController(w, t, l, v)
    \/ \E w \in 1 .. MaxViews, t \in TrackNums, l \in LineNums :
         \E v \in Values("ControllerValue") : SetCellControllerValue(w, t, l, v)

\* one pattern, the views taken of its data and the cells read and written through them
SpecData == InitData /\ [][NextData]_vars


\* the channel at full volume
InitVolume ==
    /\ LoadedChannel
    /\ NoPatterns
    /\ ExtraInitial
    /\ call = Call("LoadFileFromBytes", "nil", 0, 1)

NextVolume ==
    \/ \E v \in VolumeInputs : SetVolume(v)
    \/ \E res \in VolumeCodes : Volume(res)
    \/ \E c \in SlotCodes : Play(c)
    \/ \E c \in SlotCodes : Stop(c)

\* one channel and its volume
SpecVolume == InitVolume /\ [][NextVolume]_vars

\* the channel at full volume, playing its project, one module of the project,
\* and no fade yet
InitFade ==
    /\ Initialized = TRUE
    /\ Version = <<1, 9, 6>>
    /\ channels = (0 :> newSunvoxChannel("music", 0))
    /\ handles = 1
    /\ slotOpen = {0}
    /\ refused = FALSE
    /\ playing = TRUE
    /\ byteData = 1
    /\ filename = 0
    /\ hasPlayed = TRUE
    /\ hasCustomLoop = FALSE
    /\ customLoopStart = 0
    /\ customLoopEnd = 0
    /\ loopCall = NoLoopCall
    /\ nativeProject = 1
    /\ nativePlaying = TRUE
    /\ curLine = 0
    /\ patternCache = << >>
    /\ pollers = << >>
    /\ goroutineCancels = << >>
    /\ blocked = FALSE
    /\ cancelling = << >>
    /\ NoPatterns
    /\ trace = << >>
    /\ locked = 0
    /\ muted = {}
    /\ links = {}
    /\ ctl = ModuleControllers
    /\ cells = << >>
    /\ volume = 256
    /\ fade = NoFade
    /\ playingOf = << >>
    /\ closedHandles = {}
    /\ call = Call("PlayFromBeginning", "nil", 0, 0)

NextFade ==
    \/ /\ fade = NoFade
       /\ \E start, end \in FadeVolumes, seconds \in Durations :
            \E res1, res2 \in VolumeCodes : NewVolumeFade(start, end, seconds, res1, res2)
    \/ /\ fade = NoFade
       /\ \E start, end \in FadeValues, seconds \in Durations, n \in CtrlNums :
            \E res1, res2 \in CtlCodes(n, "value") :
              NewControllerFade(start, end, seconds, n, res1, res2)
    \/ Restart
    \/ \E dt \in Deltas, res \in NativeCodes : VolumeFadeUpdate(dt, res)
    \/ \E dt \in Deltas, valid \in BOOLEAN, res \in NativeCodes : ControllerFadeUpdate(dt, valid, res)

\* a playing channel and a fade of its volume or of a controller of its module
SpecFade == InitFade /\ [][NextFade]_vars


\* the pools of channels: each of the indices 0 .. ClosableLow-1 and 15 free or
\* holding a channel of some ID
Pools ==
    UNION {[open -> PoolIDs] : open \in SUBSET Closable}

\* an initialized engine with a pool of channels, each playing or not
InitPool ==
    /\ Initialized = TRUE
    /\ Version = <<1, 9, 6>>
    /\ \E ids \in Pools :
         /\ channels = [i \in DOMAIN ids |-> newSunvoxChannel(ids[i], i)]
         /\ slotOpen = DOMAIN ids
         /\ handles = IF DOMAIN ids = {} THEN 0 ELSE 1 + CHOOSE m \in DOMAIN ids : \A i \in DOMAIN ids : i <= m
         /\ playingOf \in [DOMAIN ids -> BOOLEAN]
    /\ closedHandles = {}
    /\ refused = FALSE
    /\ playing = (0 \in DOMAIN playingOf /\ playingOf[0])
    /\ hasPlayed = playing
    /\ nativePlaying = playing
    /\ byteData = 0
    /\ filename = 0
    /\ nativeProject = 0
    /\ curLine = 0
    /\ hasCustomLoop = FALSE
    /\ customLoopStart = 0
    /\ customLoopEnd = 0
    /\ loopCall = NoLoopCall
    /\ patternCache = << >>
    /\ pollers = << >>
    /\ goroutineCancels = << >>
    /\ blocked = FALSE
    /\ cancelling = << >>
    /\ NoPatterns
    /\ trace = << >>
    /\ locked = 0
    /\ muted = {}
    /\ links = {}
    /\ ctl = << >>
    /\ cells = << >>
    /\ volume = 256
    /\ fade = NoFade
    /\ call = Call("none", "nil", 0, NoIndex)

NextPool ==
    \E id \in PoolIDs, inUse \in ChannelInUseTypes : ChannelByID(id, inUse)

\* the engine's channels and the lookups by ID
SpecPool == InitPool /\ [][NextPool]_vars


\* the lines patterns are placed at
PlaceXs == {0, 4}

\* the line the custom loops set with them end at
LoopEnd == 8

\* the pattern that is placed and muted
Placed == 1

\* the channel, the two patterns and the two modules of its project
InitPattern ==
    /\ LoadedChannel
    /\ patterns = TouchLayout
    /\ ExtraInitial
    /\ call = Call("LoadFileFromBytes", "nil", 0, 1)

NextPattern ==
    \/ \E x \in PlaceXs, res \in SlotCodes : SetXY(Placed, x, patterns[Placed].y, res)
    \/ \E dx \in {4, -4} : Add(patterns[Placed].x, dx) \in PlaceXs /\ Move(Placed, dx, 0, 0)
    \/ \E mute \in BOOLEAN : \E res \in MuteCodes(Placed) : SetMute(Placed, mute, res)
    \/ \E a \in PlaceXs : ~hasCustomLoop /\ SetCustomLoop(a, LoopEnd)
    \/ ResetCustomLoop

\* one channel and the operations that place and mute the patterns of its project
SpecPattern == InitPattern /\ [][NextPattern]_vars

NextLock ==
    \/ \E i \in DOMAIN patterns, x \in PlaceXs, res \in SlotCodes : SetXY(i, x, patterns[i].y, res)
    \/ \E i \in DOMAIN patterns, mute \in BOOLEAN : \E res \in MuteCodes(i) : SetMute(i, mute, res)
    \/ \E source \in Modules : \E dest \in (Modules \ {source}) \cup {NoIndex}, res \in SlotCodes :
         Connect(source, dest, res)
    \/ \E source \in Modules : \E dest \in (Modules \ {source}) \cup {NoIndex}, res \in SlotCodes :
         Disconnect(source, dest, res)
    \/ \E c \in SlotCodes : Close(0, c)

\* one channel and the operations that lock the slot to change its project
SpecLock == InitPattern /\ [][NextLock]_vars

NextLoopRead ==
    \/ \E a \in LoopStarts, b \in LoopEnds : SetCustomLoop(a, b)
    \/ ResetCustomLoop
    \/ CustomLoopStart
    \/ CustomLoopEnd

\* one channel, the custom loops set on its project and the reads of their bounds
SpecLoopRead == InitPattern /\ [][NextLoopRead]_vars

\* the projects with one or two patterns in NumPatterns slots: a slot may be empty
SparseLayouts ==
    {l \in [1 .. NumPatterns -> [x : PatternXs, y : {0}, lines : {0} \cup PatternLineCounts]] :
        /\ Existing(l) # {}
        /\ \A i \in DOMAIN l : l[i].lines = 0 => l[i].x = 0
        /\ \A i, j \in Existing(l) : i # j => ~Overlap(l[i], l[j])}

InitSparse ==
    /\ LoadedChannel
    /\ patterns \in SparseLayouts
    /\ ExtraInitial
    /\ call = Call("LoadFileFromBytes", "nil", 0, 1)

NextSparse ==
    \E stopAt \in 0 .. NumPatterns : ForEachPattern(stopAt)

\* one channel and the walks over the patterns of its project
SpecSparse == InitSparse /\ [][NextSparse]_vars

NextReload ==
    \/ \E d \in Projects, c \in SlotCodes : LoadProject(d, c)
    \/ \E i \in 1 .. NumPatterns : \E res \in LineCodes(i) : PatternLineCount(i, res)
    \/ \E c \in SlotCodes : Close(0, c)
    \/ 0 \notin DOMAIN channels /\ \E id \in IDs : CreateChannel(id, 0)

\* one channel, the projects loaded into it and the line counts read from them
SpecReload == InitChannel /\ [][NextReload]_vars


-----------------------------------------------------------------------------
(* The custom loop *)

\* the patterns of the project lying in [startX, endX), by their places in pre
InsideRange(pre, startX, endX) ==
    {i \in Existing(pre) : pre[i].x >= startX /\ pre[i].x + pre[i].lines <= endX}

\* the patterns of the project lying entirely outside [startX, endX)
OutsideRange(pre, startX, endX) ==
    {i \in Existing(pre) : pre[i].x + pre[i].lines <= startX \/ pre[i].x >= endX}

\* C5: SetCustomLoop(a, b) on a channel with no custom loop, followed at once by
\* ResetCustomLoop(), leaves every pattern's X and Y as they were before
\* SetCustomLoop, and HasCustomLoop() false.
C5_SetThenResetRestores ==
    [][call.op = "SetCustomLoop" /\ ~loopCall.had /\ call'.op = "ResetCustomLoop" =>
         /\ \A i \in Existing(loopCall.pre) :
               /\ patterns'[i].x = loopCall.pre[i].x
               /\ patterns'[i].y = loopCall.pre[i].y
         /\ ~HasCustomLoop'
    ]_vars

\* C6: after SetCustomLoop(start, end) on a channel with no custom loop, every
\* pattern entirely outside [start, end) lies 99999999 lines further left, on its
\* row, and the patterns inside the range were all moved left by one amount that
\* puts the earliest of them at line 0.
C6_LoopIsolatesRange ==
    call.op = "SetCustomLoop" /\ ~loopCall.had =>
        LET pre == loopCall.pre
            in == InsideRange(pre, loopCall.startX, loopCall.endX)
            out == OutsideRange(pre, loopCall.startX, loopCall.endX)
        IN  /\ \A i \in out :
                  /\ patterns[i].x = pre[i].x - customLoopLineAmount
                  /\ patterns[i].y = pre[i].y
            /\ in # {} =>
                  /\ \A i, j \in in : pre[i].x - patterns[i].x = pre[j].x - patterns[j].x
                  /\ \A i \in in : patterns[i].y = pre[i].y
                  /\ Min({patterns[i].x : i \in in}) = 0

-----------------------------------------------------------------------------
(* The channel pool *)

FreeIndices == (0 .. MaxChannels - 1) \ DOMAIN channels

\* C1: the engine never holds more than 16 channels, each under its own index
\* in 0..15 with channel.Index equal to the map key; a CreateChannel made when all
\* 16 indices are taken returns an error and opens no native slot; after a
\* successful Close an index is free, and a CreateChannel made with a free index
\* (on the initialized engine, the native open returning 0) succeeds.
C1_ChannelPool ==
    /\ [](/\ Cardinality(DOMAIN channels) <= 16
          /\ DOMAIN channels \subseteq 0 .. 15
          /\ \A i \in DOMAIN channels : channels[i].Index = i
          /\ (call.op = "Close" /\ call.ret = "nil" => FreeIndices # {} /\ Initialized))
    /\ [][call'.op = "CreateChannel" =>
            /\ (FreeIndices = {} =>
                    /\ call'.ret = "err"
                    /\ channels' = channels
                    /\ slotOpen' = slotOpen)
            /\ (Initialized /\ FreeIndices # {} /\ call'.res = 0 =>
                    /\ call'.ret = "nil"
                    /\ Cardinality(DOMAIN channels') = Cardinality(DOMAIN channels) + 1)
       ]_vars

\* C1 witness: a CreateChannel succeeds after an earlier one was refused with all
\* 16 indices taken (so a Close came in between)
C1_Witness ==
    /\ refused
    /\ call.op = "CreateChannel"
    /\ call.ret = "nil"
    /\ Cardinality(DOMAIN channels) = 16

\* C2: CreateChannel allocates the lowest index of 0..15 that is no key of the
\* map, and adds the channel only when the native open returned 0; on an engine
\* that is not initialized, or when the native open fails, it returns an error and
\* the map is unchanged.
C2_LowestFreeIndex ==
    [][call'.op = "CreateChannel" =>
         IF Initialized /\ FreeIndices # {} /\ call'.res = 0
         THEN /\ call'.ret = "nil"
              /\ call'.idx = Min(FreeIndices)
              /\ DOMAIN channels' = DOMAIN channels \cup {Min(FreeIndices)}
              /\ channels'[Min(FreeIndices)].Index = Min(FreeIndices)
              /\ \A i \in DOMAIN channels : channels'[i] = channels[i]
         ELSE /\ call'.ret = "err"
              /\ channels' = channels
    ]_vars

\* C2 witness: an index freed by Close was given out again while a higher index
\* was free too
C2_Witness ==
    /\ call.op = "CreateChannel"
    /\ call.ret = "nil"
    /\ \E j \in FreeIndices : j > call.idx /\ j < handles

-----------------------------------------------------------------------------
(* Playback state *)

\* C3: IsPlaying() is true after a Play or PlayFromBeginning that returned nil and
\* false after a Stop that returned nil, and the song reaching its end does not
\* change it.
C3_PlayStop ==
    /\ [](call.op \in {"Play", "PlayFromBeginning"} /\ call.ret = "nil" => IsPlaying)
    /\ [](call.op = "Stop" /\ call.ret = "nil" => ~IsPlaying)
    /\ [][call'.op = "SongEnd" => playing' = playing]_vars

\* C4: once Play or PlayFromBeginning has succeeded on a channel, every later load
\* on it returns an error and leaves the loaded project as it was.
C4_NoLoadAfterPlay ==
    [][hasPlayed /\ call'.op \in {"LoadFileFromPath", "LoadFileFromBytes", "LoadFileFromFS"} =>
         /\ call'.ret = "err"
         /\ byteData' = byteData
         /\ nativeProject' = nativeProject
    ]_vars

-----------------------------------------------------------------------------
(* The callback pollers *)

\* the poller p of name n runs
RunningAs(n) == {p \in DOMAIN pollers : pollers[p].name = n /\ Running(pollers[p])}

\* the caller has cancelled poller p, and its name has no callback since: the
\* last setter call for the name was one with a nil callback
UnsetBefore(p) == pollers[p].dismissed /\ pollers[p].name \notin DOMAIN goroutineCancels

\* the caller has cancelled poller p, and its name has the cancel channel of
\* another poller, started since
ReplacedBefore(p) == pollers[p].dismissed /\ pollers[p].name \in DOMAIN goroutineCancels

\* C7: After SetOnCurrentLineChange(res, nil) or SetOnPatternTouch(res, nil) has
\* returned, the callback that was registered under the name is never invoked
\* again, whatever the interleaving of the poller and the caller, and Play, Stop
\* and Seek go on working: they succeed whenever the library accepts the call.
C7_NilCallbackStopsInvocations ==
    /\ [][call'.op \in Callbacks => ~UnsetBefore(call'.idx)]_vars
    /\ [][/\ \E p \in DOMAIN pollers : UnsetBefore(p)
          /\ call' # call
          /\ \/ call'.op \in {"Play", "Stop"} /\ call'.res >= 0
             \/ call'.op = "Seek" /\ call'.res = 0
          => call'.ret = "nil"]_vars

\* C8: For each of the two callback names at most one poller goroutine runs at
\* any time, and a poller whose name got a new callback does not invoke its own
\* callback once the new poller has been started.
C8_OnePollerPerName ==
    /\ [](\A n \in Names : Cardinality(RunningAs(n)) <= 1)
    /\ [][call'.op \in Callbacks => ~ReplacedBefore(call'.idx)]_vars

\* C9: A poller invokes its callback on a transition only. The line callback is
\* never invoked with the line of its previous invocation. The touch callback is
\* invoked with justStarted=true only for a pattern that was not touched at the
\* previous poll, with justStarted=false only for a pattern that was touched at
\* the previous poll and is not touched now, and for each pattern the
\* notifications alternate, the first one being true.
C9_CallbackOnTransitionOnly ==
    [][call'.op \in Callbacks =>
        LET q == pollers[call'.idx]
            i == call'.res
        IN  /\ call'.op = "onLinechange" => i # q.lastArg
            /\ call'.op = "onPatternTouch(true)" =>
                   i \notin q.hPrev /\ i \in q.hNow /\ i \notin q.lastTouch
            /\ call'.op = "onPatternTouch(false)" =>
                   i \in q.hPrev /\ i \notin q.hNow /\ i \in q.lastTouch]_vars

\* a pattern's end has just been notified, after its start, while a line poller
\* that has been told a line waits for the next one
C9_Witness ==
    /\ call.op = "onPatternTouch(false)"
    /\ call.ret = "true"
    /\ \E p \in DOMAIN pollers :
           /\ pollers[p].name = LineChange
           /\ pollers[p].lastArg = curLine
           /\ pollers[p].pc = "poll"

\* the caller has cancelled poller p, whose goroutine has not returned
CancelledAndRunning(p) ==
    p \in DOMAIN pollers /\ pollers[p].dismissed /\ Running(pollers[p])

-----------------------------------------------------------------------------
(* Controllers *)

\* the controller accessors of a module
ControllerAccessors ==
    {"ControllerValue", "ControllerName", "ControllerMinimum", "ControllerMaximum",
     "SetControllerValue"}

\* the native functions called in the trace
Called == {trace[i].fn : i \in DOMAIN trace}

\* C11: called with a controller number of 0 or less, each of ControllerValue,
\* ControllerName, ControllerMinimum, ControllerMaximum and SetControllerValue
\* returns an error and calls no native function; an Update of a ControllerFade
\* whose controller is 0 or less hands no value to the library. The
\* controllers stay as they were in both cases.
C11_NoControllerBelowOne ==
    [][/\ call'.op \in ControllerAccessors /\ call'.idx <= 0 =>
            call'.ret = "err" /\ trace' = << >> /\ ctl' = ctl
       /\ call'.op = "ControllerFade.Update" /\ fade.controller <= 0 =>
            "sv_set_module_ctl_value" \notin Called' /\ ctl' = ctl]_vars

\* an Update of a fade of controller 0, on a valid module, has completed the fade
C11_Witness ==
    /\ call.op = "ControllerFade.Update"
    /\ call.ret = "true"
    /\ fade.controller = 0
    /\ fade.value = Num(MaxCtl)
    /\ Called = {"sv_get_module_flags"}

-----------------------------------------------------------------------------
(* Pattern data *)

\* the track and line name a cell of the grid
InGrid(trackNum, lineNum) ==
    trackNum \in 0 .. NumTracks - 1 /\ lineNum \in 0 .. NumLines - 1

FieldOf(op) ==
    IF op \in {"Note", "SetNote"} THEN "Note"
    ELSE IF op \in {"Velocity", "SetVelocity"} THEN "Velocity"
    ELSE IF op \in {"Module", "SetModule"} THEN "Module"
    ELSE IF op \in {"Controller", "SetController"} THEN "Controller"
    ELSE "ControllerValue"

Getters == {"Note", "Velocity", "Module", "Controller", "Data.ControllerValue"}

Setters == {"SetNote", "SetVelocity", "SetModule", "SetController", "Data.SetControllerValue"}

\* C13: a cell accessor called with a track outside 0 .. T-1 or a line outside
\* 0 .. L-1 returns an error, changes no cell and indexes nothing outside the
\* grid; called with a track and line of the grid it reads or writes the cell
\* lineNum * T + trackNum and no other.
C13_OutOfRangeRejected ==
    [][call'.op \in Getters \cup Setters =>
        LET trackNum == call'.idx[2]
            lineNum == call'.idx[3]
            i == (lineNum * NumTracks) + trackNum + 1
        IN  IF InGrid(trackNum, lineNum)
            THEN /\ call'.ret = "nil"
                 /\ \A j \in DOMAIN cells.data \ {i} : cells'.data[j] = cells.data[j]
                 /\ call'.op \in Getters =>
                        /\ cells'.data = cells.data
                        /\ call'.res = Got(FieldOf(call'.op), cells.data[i][FieldOf(call'.op)])
                 /\ call'.op \in Setters =>
                        cells'.data[i][FieldOf(call'.op)] = Stored(FieldOf(call'.op), call'.res)
            ELSE /\ call'.ret = "err"
                 /\ cells'.data = cells.data]_vars

-----------------------------------------------------------------------------
(* Volume and fades *)

\* clamp(v, 0, 1) of a float32 number or infinity, in units of 1/VolUnit
Clamp01(v) ==
    IF v.k = "inf" THEN (IF v.n > 0 THEN VolUnit ELSE 0)
    ELSE IF v.n > VolUnit THEN VolUnit ELSE IF v.n < 0 THEN 0 ELSE v.n

\* C14: SetVolume(v) passes the library an integer of 0 .. 256, the floor of
\* clamp(v, 0, 1) * 256, never a negative one (which the library takes for a
\* read), and so sets the volume of the slot; a Volume() that follows returns
\* that integer divided by 256, which is within 1/256 of clamp(v, 0, 1).
C14_SetVolumeFixedPoint ==
    [][/\ call'.op = "SetVolume" =>
            /\ call'.res \in 0 .. 256
            /\ call'.idx.k # "nan" => call'.res = (Clamp01(call'.idx) * 256) \div VolUnit
            /\ volume' = call'.res
       /\ call.op = "SetVolume" /\ call'.op = "Volume" /\ call'.ret = "nil" =>
            /\ call'.res * 256 = call.res * VolUnit
            /\ call.idx.k # "nan" =>
                 /\ call'.res <= Clamp01(call.idx)
                 /\ (Clamp01(call.idx) - call'.res) * 256 < VolUnit]_vars

\* C15: the completion fraction of a fade stays in [0, 1]; an Update reports
\* completion only when the seconds passed to Update since the constructor or
\* the last Restart add up to the duration or more; the Update that first
\* reports completion returns the end value of the fade.
C15_FadeCompletion ==
    fade.kind # "none" =>
        /\ fade.percent.k = "num"
        /\ fade.percent.n \in 0 .. Frac
        /\ call.op \in {"VolumeFade.Update", "ControllerFade.Update"} /\ call.ret = "true" =>
              /\ fade.elapsed >= fade.duration
              /\ fade.completions = 1 => fade.value = Num(fade.end)

\* C16: a VolumeFade that ends at volume 0 or less has called Stop once if an
\* Update has reported completion since the constructor or the last Restart,
\* and not at all otherwise; a VolumeFade that ends above 0 never calls Stop.
C16_StopsExactlyOnce ==
    fade.kind = "volume" =>
        fade.stops = (IF fade.end <= 0 /\ fade.completions > 0 THEN 1 ELSE 0)

-----------------------------------------------------------------------------
(* Lookup by ID *)

\* the open channels with the ID, and those of them that play
WithID(id) == {i \in DOMAIN channels : channels[i].ID = id}

PlayingWithID(id) == {i \in WithID(id) : playingOf[i]}

\* the lowest index of a set of channels, NoIndex when there is none
Lowest(S) == IF S = {} THEN NoIndex ELSE Min(S)

\* C17: ChannelByID(id, policy) returns, of the open channels with the ID:
\* the one of lowest index for ChannelAny; the lowest playing one, else nil,
\* for ChannelInUse; the lowest one that does not play, else nil, for
\* ChannelNotInUse; for the two Maybe policies the lowest playing (not playing)
\* one if there is any, else the lowest with the ID; nil when no open channel
\* has the ID.
C17_ChannelByID ==
    call.op = "ChannelByID" =>
        LET id == call.idx[1]
            inUse == call.idx[2]
            busy == PlayingWithID(id)
            idle == WithID(id) \ PlayingWithID(id)
        IN  /\ inUse = "ChannelAny" => call.res = Lowest(WithID(id))
            /\ inUse = "ChannelInUse" => call.res = Lowest(busy)
            /\ inUse = "ChannelNotInUse" => call.res = Lowest(idle)
            /\ inUse = "ChannelInUseMaybe" =>
                 call.res = IF busy # {} THEN Min(busy) ELSE Lowest(WithID(id))
            /\ inUse = "ChannelNotInUseMaybe" =>
                 call.res = IF idle # {} THEN Min(idle) ELSE Lowest(WithID(id))
            /\ WithID(id) = {} => call.res = NoIndex /\ call.ret = "nil"

\* ChannelInUseMaybe has returned a playing channel that is not the lowest one
\* with the ID
C17_Witness ==
    /\ call.op = "ChannelByID"
    /\ call.idx[2] = "ChannelInUseMaybe"
    /\ call.res \in PlayingWithID(call.idx[1])
    /\ call.res # Min(WithID(call.idx[1]))

-----------------------------------------------------------------------------
(* Pause/resume and lock/unlock around the native mutations *)

\* the native calls that change a pattern or the connections of a module
Mutations == {"sv_set_pattern_xy", "sv_pattern_mute", "sv_connect_module", "sv_disconnect_module"}

\* how many of the first k calls of a trace are calls of fn
Count(tr, fn, k) == Cardinality({j \in 1 .. k : tr[j].fn = fn})

\* every mutation of the trace comes after an opening call that no closing call
\* has matched yet
Inside(tr, opening, closing) ==
    \A k \in DOMAIN tr :
        tr[k].fn \in Mutations => Count(tr, opening, k - 1) > Count(tr, closing, k - 1)

\* every opening call of the trace is matched by a closing call when it ends
Matched(tr, opening, closing) ==
    Count(tr, opening, Len(tr)) = Count(tr, closing, Len(tr))

\* C18: SetXY, Move, SetCustomLoop, ResetCustomLoop and SetMute make each
\* native mutation between a pause of the audio engine and the resume that
\* matches it, and the engine has been resumed when they return, whether they
\* return an error or not.
C18_PauseResumeBracket ==
    call.op \in {"SetXY", "Move", "SetCustomLoop", "ResetCustomLoop", "SetMute"} =>
        /\ Inside(trace, "sv_pause", "sv_resume")
        /\ Matched(trace, "sv_pause", "sv_resume")

\* C19: SetXY, SetMute, Connect and Disconnect make their native mutation
\* between a lock and an unlock of the slot, and the slot holds no lock when
\* they return, whether the mutation returned an error code or not.
C19_LockBalanced ==
    call.op \in {"SetXY", "SetMute", "Connect", "Disconnect"} =>
        /\ Inside(trace, "sv_lock_slot", "sv_unlock_slot")
        /\ locked = 0

-----------------------------------------------------------------------------
(* Initialization *)

Inits == {"Init", "InitFromDirectory"}

\* C20: on an initialized engine Init and InitFromDirectory return nil, load no
\* library, make no native call and leave Initialized and the version as they
\* were; when sv_init returns a negative code they return an error and
\* Initialized is false; while Initialized is false CreateChannel returns an
\* error and creates nothing, and only an Init that succeeds makes it true.
C20_InitOnce ==
    [][/\ (call'.op \in Inits /\ Initialized) =>
             /\ call'.ret = "nil"
             /\ trace' = << >>
             /\ Initialized'
             /\ Version' = Version
       /\ (call'.op \in Inits /\ call'.res < 0) =>
             /\ call'.ret = "err"
             /\ ~Initialized'
       /\ (call'.op = "CreateChannel" /\ ~Initialized) =>
             /\ call'.ret = "err"
             /\ channels' = channels
       /\ (~Initialized /\ Initialized') =>
             /\ call'.op \in Inits
             /\ call'.ret = "nil"
             /\ call'.res >= 0]_vars

\* InitFromDirectory has returned at its first test on an engine that is
\* initialized and has channels
C20_Witness ==
    /\ call.op = "InitFromDirectory"
    /\ call.ret = "nil"
    /\ trace = << >>
    /\ Initialized
    /\ channels # << >>


\* C21: Deinit returns an error exactly when sv_deinit returns a code other
\* than 0, and a Deinit that fails leaves Initialized, the version and the map
\* of channels as they were; on an engine that was initialized, the Init and the
\* CreateChannel that come next are a no-op and accepted as before.
C21_DeinitError ==
    [][/\ (call'.op = "Deinit" /\ "sv_deinit" \in Called') =>
             /\ (call'.ret = "err") <=> (call'.res # 0)
             /\ call'.ret \in {"err", "nil"}
       /\ (call'.op = "Deinit" /\ call'.ret = "err") =>
             /\ Initialized' = Initialized
             /\ Version' = Version
             /\ channels' = channels
       /\ (call.op = "Deinit" /\ call.ret = "err" /\ Initialized /\ call'.op = "Init") =>
             call'.ret = "nil" /\ trace' = << >>
       /\ (call.op = "Deinit" /\ call.ret = "err" /\ Initialized
           /\ call'.op = "CreateChannel" /\ FreeIndices # {} /\ call'.res = 0) =>
             call'.ret = "nil"]_vars

\* on an engine with a channel, a CreateChannel has been accepted right after a
\* Deinit that failed
C21_Witness ==
    /\ call.op = "CreateChannel"
    /\ call.ret = "nil"
    /\ trace = <<Native("sv_deinit", 1)>>
    /\ Cardinality(DOMAIN channels) > 1



-----------------------------------------------------------------------------
(* Controllers, from number 1 up *)

\* the native function each accessor is to call
EntryPoint ==
    [ControllerValue |-> "sv_get_module_ctl_value",
     ControllerMinimum |-> "sv_get_module_ctl_min",
     ControllerMaximum |-> "sv_get_module_ctl_max",
     SetControllerValue |-> "sv_set_module_ctl_value"]

\* C22: called with a controller number of 1 or more, ControllerValue,
\* ControllerMinimum, ControllerMaximum and SetControllerValue each call their
\* own native function, one that Init binds, with the controller number less 1,
\* and a ControllerMaximum that succeeds returns the maximum of the controller.
C22_ControllersForwarded ==
    (call.op \in DOMAIN EntryPoint /\ call.idx >= 1) =>
        /\ trace = <<Native(EntryPoint[call.op], call.idx - 1)>>
        /\ EntryPoint[call.op] \in LibFuncs
        /\ (call.op = "ControllerMaximum" /\ call.ret = "nil") =>
              call.res = ctl[call.idx - 1].max


-----------------------------------------------------------------------------
(* The bounds of the custom loop *)

\* C23: CustomLoopStart and CustomLoopEnd return the start and the end of the
\* custom loop when one is set, and -1 when none is set.
C23_LoopBounds ==
    /\ call.op = "CustomLoopStart" =>
          call.res = IF hasCustomLoop THEN customLoopStart ELSE -1
    /\ call.op = "CustomLoopEnd" =>
          call.res = IF hasCustomLoop THEN customLoopEnd ELSE -1


-----------------------------------------------------------------------------
(* The walk over the patterns *)

\* C24: ForEachPattern calls the callback once for every pattern of the channel
\* (every slot with a line count above 0), whether the slots in use are
\* contiguous or not, and stops early only when the callback returns false;
\* the patterns SetCustomLoop and ResetCustomLoop move are all of them.
C24_EveryPatternVisited ==
    call.op = "ForEachPattern" =>
        LET slots == {call.res[k] : k \in DOMAIN call.res}
            all == Cardinality(Existing(patterns))
        IN  /\ Cardinality(slots) = Len(call.res)
            /\ slots \subseteq Existing(patterns)
            /\ Len(call.res) = IF call.idx \in 1 .. all THEN call.idx ELSE all
            /\ Visited(patterns) = Existing(patterns)


-----------------------------------------------------------------------------
(* The filename of the project *)

FileLoads == {"LoadFileFromPath", "LoadFileFromFS"}

\* C25: ProjectFilename is the path of the last LoadFileFromPath or
\* LoadFileFromFS that succeeded, and empty once LoadFileFromBytes has loaded
\* the project; a load that fails leaves it as it was.
C25_FilenameOfLoadedProject ==
    [][/\ (call'.op \in FileLoads /\ call'.ret = "nil") => filename' = call'.idx
       /\ (call'.op = "LoadFileFromBytes" /\ call'.ret = "nil") => filename' = 0
       /\ (call'.op \in FileLoads \cup {"LoadFileFromBytes"} /\ call'.ret = "err") =>
             filename' = filename]_vars


-----------------------------------------------------------------------------
(* The line count of a pattern *)

\* C26: a LineCount that succeeds returns the line count the pattern of that
\* index has in the slot of the channel when it is called; a count read before
\* the channel was closed or loaded again is never returned for the project
\* loaded since.
C26_LineCountOfLoadedProject ==
    (call.op = "LineCount" /\ call.ret = "nil") =>
        call.res = IF call.idx \in DOMAIN patterns THEN patterns[call.idx].lines ELSE 0


-----------------------------------------------------------------------------
(* Cells read back *)

\* each getter of a cell with the setter of the same field
GetterSetter ==
    {<<"Velocity", "SetVelocity">>, <<"Module", "SetModule">>, <<"Controller", "SetController">>,
     <<"Data.ControllerValue", "Data.SetControllerValue">>}

\* C27: for a track and line of the grid, Module after SetModule(v), Controller
\* after SetController(v), Velocity after SetVelocity(v) and ControllerValue
\* after SetControllerValue(v), called on the cell that was set, return v.
C27_CellRoundTrip ==
    [][\A gs \in GetterSetter :
          (/\ call'.op = gs[1] /\ cells.set.op = gs[2]
           /\ InGrid(cells.set.track, cells.set.line)
           /\ call'.idx[2] = cells.set.track /\ call'.idx[3] = cells.set.line)
          => call'.ret = "nil" /\ call'.res = cells.set.value]_vars


-----------------------------------------------------------------------------
(* Cancelling the pollers *)

\* goroutine t waits in c <- true: every channel it has still to send on is full
Waiting(t) ==
    /\ t \in DOMAIN cancelling
    /\ cancelling[t].pc = "send"
    /\ cancelling[t].found # {}
    /\ \A c \in cancelling[t].found : WouldBlock({c})

\* goroutine t waits for ever: the pollers that read those channels have returned,
\* or the reader is t itself, which waits inside its callback
WaitingForEver(t) ==
    /\ Waiting(t)
    /\ \A c \in cancelling[t].found : c = t \/ ~Running(pollers[c])

\* C28: Cancelling pollers never blocks: in every interleaving of the caller, the
\* pollers and the callbacks that set or clear a callback themselves, each cancel
\* channel takes at most one send, and no call of SetOnCurrentLineChange,
\* SetOnPatternTouch or Close waits for ever in its send.
C28_CancelNeverBlocks ==
    /\ \A p \in DOMAIN pollers : pollers[p].sends <= 1
    /\ \A t \in Goroutines : ~WaitingForEver(t)


-----------------------------------------------------------------------------
(* Closing a channel twice *)

\* C29: An entry leaves the channel map only in a successful Close on the very
\* channel object the map holds there: a Close on an object that was closed
\* before, whose index CreateChannel has given to a new channel since, leaves the
\* map and the open native slots as they are.
C29_CloseOnlyOwnChannel ==
    /\ [][\A i \in DOMAIN channels \ DOMAIN channels' :
              /\ call'.op = "Close" /\ call'.ret = "nil"
              /\ call'.idx = [Index |-> i, closed |-> FALSE]]_vars
    /\ [][call'.op = "Close" /\ call'.idx.closed /\ call'.idx.Index \in DOMAIN channels
              => channels' = channels /\ slotOpen' = slotOpen]_vars


-----------------------------------------------------------------------------
(* Setting a custom loop again *)

\* the patterns post are the patterns pre isolated to [startX, endX): those
\* outside lie 99999999 lines further left, those inside start at line 0
Isolated(pre, post, startX, endX) ==
    LET in == InsideRange(pre, startX, endX)
        out == OutsideRange(pre, startX, endX)
    IN  /\ \A i \in out : post[i].x = pre[i].x - customLoopLineAmount
        /\ in # {} =>
              /\ \A i, j \in in : pre[i].x - post[i].x = pre[j].x - post[j].x
              /\ Min({post[i].x : i \in in}) = 0

\* the range the last SetCustomLoop call asked for
Asked(c) == <<c.startX, c.endX>>

\* C30: SetCustomLoop(a, b) is skipped only when (a, b) is the range already
\* active. With no loop active, a = b = 0 on a fresh channel included, it leaves
\* HasCustomLoop() true and the patterns isolated to (a, b); with a loop active
\* that the call before set for another range it makes its native calls, leaves
\* HasCustomLoop() true and, when that loop was set on a channel without one,
\* the patterns isolated to (a, b); and a second SetCustomLoop(a, b) right after
\* the first leaves the patterns where the first left them.
C30_SetCustomLoopUnlessActive ==
    /\ [][call'.op = "SetCustomLoop" /\ ~HasCustomLoop =>
              /\ HasCustomLoop'
              /\ Isolated(patterns, patterns', loopCall'.startX, loopCall'.endX)]_vars
    /\ [][/\ call'.op = "SetCustomLoop"
          /\ call.op = "SetCustomLoop" /\ trace # << >>
          /\ Asked(loopCall') # Asked(loopCall)
          => /\ trace' # << >>
             /\ HasCustomLoop'
             /\ ~loopCall.had =>
                    Isolated(loopCall.pre, patterns', loopCall'.startX, loopCall'.endX)]_vars
    /\ [][/\ call'.op = "SetCustomLoop"
          /\ call.op = "SetCustomLoop"
          /\ Asked(loopCall') = Asked(loopCall)
          => patterns' = patterns]_vars

====
